---- MODULE Spec2Model ----
(***************************************************************************)
(* The registry-service catalog: the three map-backed stores of the        *)
(* repository (registry.CentralRegistry, storage.MemoryStorage behind      *)
(* storage.MemoryStorageAdapter, registry.ItemStore) and the operations    *)
(* on them, one TLA+ operator per Go method and one action per call.       *)
(***************************************************************************)
EXTENDS Integers, Sequences, FiniteSets, TLC

(***************************************************************************)
(* Bounds of the model.                                                    *)
(***************************************************************************)
\* The operations that increment a version are not taken beyond this value.
MaxVersion == 3

(***************************************************************************)
(* Values.                                                                 *)
(***************************************************************************)
\* A nil pointer / nil interface value.
Nil == [kind |-> "nil"]

\* A nil error.
ErrNil == "nil"

\* errors.New("item already exists"), memory.go:165.
ErrExists == "item already exists"

\* errors.New("item not found"), memory.go:197, 214, 232, 76, 90.
ErrNotFound == "item not found"

\* fmt.Errorf("item not found: %s", id), registry.go:58, item.go:116, 135, 147.
ErrNotFoundId(id) == "item not found: " \o id

\* errors.New("item is deleted"), memory.go:201; fmt.Errorf, item.go:120.
ErrDeleted == "item is deleted"

\* errors.New("invalid item type"), memory_adapter.go:22.
ErrInvalidType == "invalid item type"

\* fmt.Errorf("item already registered: %s", id), registry.go:41.
ErrAlreadyRegistered(id) == "item already registered: " \o id

\* The identities callers use; "" is the empty identity.
Ids == {"", "git"}

\* The identities uuid.New().String() hands out (item.go:88).
Uuids == {"uuid-1"}

\* Two metadata mappings with different key sets.
Meta1 == [k \in {"url"} |-> "x"]

Meta2 == [k \in {"port"} |-> "y"]

\* The zero time.Time of an Item that was built by a literal or by JSON
\* decoding, and the instants the clock shows.
ZeroTime == 0

\* A *registry.Item as a caller builds it (item.go:13-23).  The unexported
\* field deleted is false in every Item built outside package registry.
MkItem(id, type, name, meta, version) ==
    [kind |-> "Item", id |-> id, type |-> type, name |-> name, meta |-> meta,
     version |-> version, deleted |-> FALSE,
     createdAt |-> ZeroTime, updatedAt |-> ZeroTime]

\* The plugins' &BuiltinAPI{ID, Type, Name} (git.go:12): a Registerable
\* that is not a *registry.Item.
MkBuiltinAPI(id, type, name) ==
    [kind |-> "BuiltinAPI", id |-> id, type |-> type, name |-> name]

\* The Items callers pass in: for every identity, two Items that differ in
\* every other field.
InputItems ==
    {MkItem(id, "API", "Git API", Meta1, 0) : id \in Ids}
    \cup {MkItem(id, "DB", "Git API v2", Meta2, 2) : id \in Ids}

\* The Registerable values callers pass to Registry.Register.
InputRegisterables ==
    InputItems \cup {MkBuiltinAPI("git", "API", "Git API")}

\* The type tags ListByType is asked for.
Types == {"API", "DB"}

(***************************************************************************)
(* Helpers on maps and slices.                                             *)
(***************************************************************************)
\* m[k] = v in a Go map.
Put(m, k, v) == [x \in (DOMAIN m) \cup {k} |-> IF x = k THEN v ELSE m[x]]

\* delete(m, k) in a Go map.
Remove(m, k) == [x \in (DOMAIN m) \ {k} |-> m[x]]

\* The empty map, make(map[string]...).
EmptyMap == [x \in {} |-> Nil]

\* The slices a range over a Go map can build from the set S of appended
\* values: every order is possible.
Orderings(S) ==
    {s \in [1..Cardinality(S) -> S] :
        \A i, j \in 1..Cardinality(S) : i # j => s[i] # s[j]}

(***************************************************************************)
(* registry.Item (item.go).                                                *)
(***************************************************************************)
\* The type assertion item.(*registry.Item) holds (memory_adapter.go:20).
IsItem(e) == e.kind = "Item"

GetID(i) == i.id

GetType(i) == i.type

Item_Update(i, name, itemType, metadata, t) ==
    [i EXCEPT !.name = name, !.type = itemType, !.meta = metadata,
              !.version = @ + 1, !.updatedAt = t]

IsDeleted(i) == i.deleted

\* Item.SoftDelete as a toggle of the flag.
Item_SoftDelete_Toggle(i, t) == [i EXCEPT !.deleted = ~@, !.updatedAt = t]

Item_SoftDelete(i, t) == [i EXCEPT !.deleted = TRUE, !.updatedAt = t]

\* Item.Restore that counts as an update.
Item_Restore_Bumps(i, t) ==
    [i EXCEPT !.deleted = FALSE, !.version = @ + 1, !.updatedAt = t]

Item_Restore(i, t) == [i EXCEPT !.deleted = FALSE, !.updatedAt = t]

(***************************************************************************)
(* storage.MemoryStorage (memory.go).  Every method is an operator from    *)
(* the map before the call to [items, ret, err]: the map after it and the  *)
(* values returned.  t is what time.Now() shows during the call.           *)
(***************************************************************************)
\* The string of the one code point n, as string(n) of an integer gives it.
CodePoint(n) == "\\x0" \o ToString(n)

\* Store calls existing.Update(item.Name, item.Version, item.Metadata)
\* (memory.go:29), where Update declares (name, itemType string, metadata):
\* the int64 Version stands where a string is expected, and the source holds
\* no conversion.  What Update receives as itemType is left open between the
\* readings of the call: the Type of the value, which the parameter means,
\* the decimal text of the Version, and the string of the code point Version.
TypeArguments(item) ==
    {item.type, ToString(item.version), CodePoint(item.version)}

\* Store that replaces the stored entry by the value passed in.
MemoryStorage_Store_Replaces(items, item, t, itemType) ==
    [items |-> Put(items, item.id, item), ret |-> Nil, err |-> ErrNil]

\* itemType is what Update receives as its second argument.
MemoryStorage_Store(items, item, t, itemType) ==
    IF item.id \in DOMAIN items
    THEN [items |-> Put(items, item.id,
                        Item_Update(items[item.id], item.name,
                                    itemType, item.meta, t)),
          ret |-> Nil, err |-> ErrNil]
    ELSE [items |-> Put(items, item.id, item), ret |-> Nil, err |-> ErrNil]

\* CreateItem that updates the slot of a soft-deleted id.
MemoryStorage_CreateItem_Upserts(items, item) ==
    IF item.id \in DOMAIN items
    THEN IF IsDeleted(items[item.id])
         THEN LET updated == [items[item.id] EXCEPT !.name = item.name,
                                                    !.meta = item.meta,
                                                    !.version = @ + 1]
              IN  [items |-> Put(items, item.id, updated),
                   ret |-> updated, err |-> ErrNil]
         ELSE [items |-> items, ret |-> Nil, err |-> ErrExists]
    ELSE LET created == [item EXCEPT !.version = 1]
         IN  [items |-> Put(items, item.id, created),
              ret |-> created, err |-> ErrNil]

\* CreateItem without the exists check.
MemoryStorage_CreateItem_Overwrites(items, item) ==
    LET created == [item EXCEPT !.version = 1]
    IN  [items |-> Put(items, item.id, created), ret |-> created, err |-> ErrNil]

\* CreateItem without item.Version = 1.
MemoryStorage_CreateItem_KeepsVersion(items, item) ==
    IF item.id \in DOMAIN items
    THEN [items |-> items, ret |-> Nil, err |-> ErrExists]
    ELSE [items |-> Put(items, item.id, item), ret |-> item, err |-> ErrNil]

MemoryStorage_CreateItem(items, item) ==
    IF item.id \in DOMAIN items
    THEN [items |-> items, ret |-> Nil, err |-> ErrExists]
    ELSE LET created == [item EXCEPT !.version = 1]
         IN  [items |-> Put(items, item.id, created),
              ret |-> created, err |-> ErrNil]

\* GetItem without the IsDeleted check.
MemoryStorage_GetItem_NoDeletedCheck(items, id) ==
    IF id \notin DOMAIN items
    THEN [items |-> items, ret |-> Nil, err |-> ErrNotFound]
    ELSE [items |-> items, ret |-> items[id], err |-> ErrNil]

MemoryStorage_GetItem(items, id) ==
    IF id \notin DOMAIN items
    THEN [items |-> items, ret |-> Nil, err |-> ErrNotFound]
    ELSE IF IsDeleted(items[id])
    THEN [items |-> items, ret |-> Nil, err |-> ErrDeleted]
    ELSE [items |-> items, ret |-> items[id], err |-> ErrNil]

\* UpdateItem that stores the value when the id is not present.
MemoryStorage_UpdateItem_Creates(items, item) ==
    IF item.id \notin DOMAIN items
    THEN [items |-> Put(items, item.id, item), ret |-> item, err |-> ErrNil]
    ELSE LET updated == [items[item.id] EXCEPT !.name = item.name,
                                               !.meta = item.meta,
                                               !.version = @ + 1]
         IN  [items |-> Put(items, item.id, updated),
              ret |-> updated, err |-> ErrNil]

\* UpdateItem that takes the version of the value passed in.
MemoryStorage_UpdateItem_TakesVersion(items, item) ==
    IF item.id \notin DOMAIN items
    THEN [items |-> items, ret |-> Nil, err |-> ErrNotFound]
    ELSE LET updated == [items[item.id] EXCEPT !.name = item.name,
                                               !.meta = item.meta,
                                               !.version = item.version]
         IN  [items |-> Put(items, item.id, updated),
              ret |-> updated, err |-> ErrNil]

MemoryStorage_UpdateItem(items, item) ==
    IF item.id \notin DOMAIN items
    THEN [items |-> items, ret |-> Nil, err |-> ErrNotFound]
    ELSE LET updated == [items[item.id] EXCEPT !.name = item.name,
                                               !.meta = item.meta,
                                               !.version = @ + 1]
         IN  [items |-> Put(items, item.id, updated),
              ret |-> updated, err |-> ErrNil]

\* DeleteItem as a physical delete.
MemoryStorage_DeleteItem_Physical(items, id, t) ==
    IF id \notin DOMAIN items
    THEN [items |-> items, ret |-> Nil, err |-> ErrNotFound]
    ELSE [items |-> Remove(items, id), ret |-> Nil, err |-> ErrNil]

MemoryStorage_DeleteItem(items, id, t) ==
    IF id \notin DOMAIN items
    THEN [items |-> items, ret |-> Nil, err |-> ErrNotFound]
    ELSE [items |-> Put(items, id, Item_SoftDelete(items[id], t)),
          ret |-> Nil, err |-> ErrNil]

MemoryStorage_Restore(items, id, t) ==
    IF id \notin DOMAIN items
    THEN [items |-> items, ret |-> Nil, err |-> ErrNotFound]
    ELSE [items |-> Put(items, id, Item_Restore(items[id], t)),
          ret |-> Nil, err |-> ErrNil]

\* ListItems without the IsDeleted filter.
MemoryStorage_ListItems_All(items) == {items[k] : k \in DOMAIN items}

\* The values ListItems appends: the entries that are not soft-deleted.
MemoryStorage_ListItems(items) ==
    {items[k] : k \in {x \in DOMAIN items : ~IsDeleted(items[x])}}

(***************************************************************************)
(* storage.MemoryStorageAdapter (memory_adapter.go): the Registry          *)
(* interface over a MemoryStorage.                                         *)
(***************************************************************************)
\* Register that converts a value of another type into an Item.
Adapter_Register_Coerces(items, item) ==
    IF item.kind # "Item"
    THEN MemoryStorage_CreateItem(
             items, MkItem(GetID(item), GetType(item), item.name, Meta1, 0))
    ELSE MemoryStorage_CreateItem(items, item)

Adapter_Register(items, item) ==
    IF item.kind # "Item"
    THEN [items |-> items, ret |-> Nil, err |-> ErrInvalidType]
    ELSE MemoryStorage_CreateItem(items, item)

\* Adapter.Get with the error test inverted.
Adapter_Get_Inverted(items, id) ==
    LET r == MemoryStorage_GetItem(items, id)
    IN  IF r.err = ErrNil THEN [ret |-> Nil, found |-> FALSE]
        ELSE [ret |-> r.ret, found |-> TRUE]

\* (Registerable, bool)
Adapter_Get(items, id) ==
    LET r == MemoryStorage_GetItem(items, id)
    IN  IF r.err # ErrNil THEN [ret |-> Nil, found |-> FALSE]
        ELSE [ret |-> r.ret, found |-> TRUE]

\* Unregister that reports no error for an absent id.
Adapter_Unregister_Silent(items, id, t) ==
    [MemoryStorage_DeleteItem(items, id, t) EXCEPT !.err = ErrNil]

Adapter_Unregister(items, id, t) == MemoryStorage_DeleteItem(items, id, t)

Adapter_List(items) == MemoryStorage_ListItems(items)

\* The test of the loop of ListByType on one entry (memory_adapter.go:53),
\* and the loop without it.
Adapter_ListByType_Keeps_All(item, itemType) == TRUE

Adapter_ListByType_Keeps(item, itemType) == GetType(item) = itemType

\* What ListByType returns when the map is items from its call to its
\* return.
Adapter_ListByType(items, itemType) ==
    {i \in Adapter_List(items) : Adapter_ListByType_Keeps(i, itemType)}

(***************************************************************************)
(* registry.CentralRegistry (registry.go).                                 *)
(***************************************************************************)
\* Register without the exists check.
CentralRegistry_Register_Overwrites(items, item) ==
    [items |-> Put(items, GetID(item), item), ret |-> Nil, err |-> ErrNil]

\* Register that takes Items only.
CentralRegistry_Register_ItemsOnly(items, item) ==
    IF item.kind # "Item"
    THEN [items |-> items, ret |-> Nil, err |-> ErrInvalidType]
    ELSE IF GetID(item) \in DOMAIN items
    THEN [items |-> items, ret |-> Nil, err |-> ErrAlreadyRegistered(GetID(item))]
    ELSE [items |-> Put(items, GetID(item), item), ret |-> Nil, err |-> ErrNil]

CentralRegistry_Register(items, item) ==
    IF GetID(item) \in DOMAIN items
    THEN [items |-> items, ret |-> Nil, err |-> ErrAlreadyRegistered(GetID(item))]
    ELSE [items |-> Put(items, GetID(item), item), ret |-> Nil, err |-> ErrNil]

CentralRegistry_Get(items, id) ==
    IF id \in DOMAIN items THEN [ret |-> items[id], found |-> TRUE]
    ELSE [ret |-> Nil, found |-> FALSE]

\* Unregister that reports no error for an absent id.
CentralRegistry_Unregister_Silent(items, id) ==
    IF id \notin DOMAIN items
    THEN [items |-> items, ret |-> Nil, err |-> ErrNil]
    ELSE [items |-> Remove(items, id), ret |-> Nil, err |-> ErrNil]

CentralRegistry_Unregister(items, id) ==
    IF id \notin DOMAIN items
    THEN [items |-> items, ret |-> Nil, err |-> ErrNotFoundId(id)]
    ELSE [items |-> Remove(items, id), ret |-> Nil, err |-> ErrNil]

\* List that leaves out the values that are not a *Item.
CentralRegistry_List_ItemsOnly(items) ==
    {items[k] : k \in {x \in DOMAIN items : items[x].kind = "Item"}}

CentralRegistry_List(items) == {items[k] : k \in DOMAIN items}

CentralRegistry_ListByType(items, itemType) ==
    {items[k] : k \in {x \in DOMAIN items : GetType(items[x]) = itemType}}

\* UpsertItem replacing the stored entry whatever the versions are.
ItemStore_UpsertItem_NoVersionCheck(items, item, t, u) ==
    IF item.id = ""
    THEN LET it == [item EXCEPT !.id = u, !.createdAt = t, !.version = 1,
                                !.updatedAt = t]
         IN  [items |-> Put(items, u, it), ret |-> it, err |-> ErrNil]
    ELSE LET it == [item EXCEPT
                       !.createdAt = IF item.id \in DOMAIN items
                                     THEN items[item.id].createdAt ELSE t,
                       !.updatedAt = t]
         IN  [items |-> Put(items, item.id, it), ret |-> it, err |-> ErrNil]

\* UpsertItem stamping CreatedAt anew when it replaces a stored entry.
ItemStore_UpsertItem_Restamps(items, item, t, u) ==
    IF item.id = ""
    THEN LET it == [item EXCEPT !.id = u, !.createdAt = t, !.version = 1,
                                !.updatedAt = t]
         IN  [items |-> Put(items, u, it), ret |-> it, err |-> ErrNil]
    ELSE IF item.id \in DOMAIN items /\ item.version <= items[item.id].version
    THEN [items |-> items, ret |-> items[item.id], err |-> ErrNil]
    ELSE LET it == [item EXCEPT !.createdAt = t, !.updatedAt = t]
         IN  [items |-> Put(items, item.id, it), ret |-> it, err |-> ErrNil]

(***************************************************************************)
(* registry.ItemStore (item.go).  u is the identity uuid.New() returns.    *)
(***************************************************************************)
ItemStore_UpsertItem(items, item, t, u) ==
    IF item.id = ""
    THEN LET it == [item EXCEPT !.id = u, !.createdAt = t, !.version = 1,
                                !.updatedAt = t]
         IN  [items |-> Put(items, u, it), ret |-> it, err |-> ErrNil]
    ELSE IF item.id \in DOMAIN items
    THEN IF item.version <= items[item.id].version
         THEN [items |-> items, ret |-> items[item.id], err |-> ErrNil]
         ELSE LET it == [item EXCEPT !.createdAt = items[item.id].createdAt,
                                     !.updatedAt = t]
              IN  [items |-> Put(items, item.id, it), ret |-> it, err |-> ErrNil]
    ELSE LET it == [item EXCEPT !.createdAt = t, !.updatedAt = t]
         IN  [items |-> Put(items, item.id, it), ret |-> it, err |-> ErrNil]

ItemStore_GetItem(items, id) ==
    IF id \notin DOMAIN items
    THEN [items |-> items, ret |-> Nil, err |-> ErrNotFoundId(id)]
    ELSE IF IsDeleted(items[id])
    THEN [items |-> items, ret |-> Nil, err |-> ErrDeleted]
    ELSE [items |-> items, ret |-> items[id], err |-> ErrNil]

ItemStore_DeleteItem(items, id, t) ==
    IF id \in DOMAIN items
    THEN [items |-> Put(items, id, Item_SoftDelete(items[id], t)),
          ret |-> Nil, err |-> ErrNil]
    ELSE [items |-> items, ret |-> Nil, err |-> ErrNotFoundId(id)]

ItemStore_RestoreItem(items, id, t) ==
    IF id \in DOMAIN items
    THEN [items |-> Put(items, id, Item_Restore(items[id], t)),
          ret |-> Nil, err |-> ErrNil]
    ELSE [items |-> items, ret |-> Nil, err |-> ErrNotFoundId(id)]

ItemStore_ListItems(items) ==
    {items[k] : k \in {x \in DOMAIN items : ~IsDeleted(items[x])}}

(***************************************************************************)
(* MemoryStorage.List(limit, offset int) (memory.go:120-142), which the    *)
(* HTTP list handler calls as ListPaginated (handlers.go:120).             *)
(***************************************************************************)
\* The greatest and the least int.  A Go int is 32 or 64 bits wide; the
\* arithmetic below is that of the 32-bit build.
MaxInt == 2147483647

MinInt == (-MaxInt) - 1

\* a + b of two ints: it wraps around.
AddInt(a, b) ==
    IF b > 0 /\ a > MaxInt - b THEN MinInt + ((a - (MaxInt - b)) - 1)
    ELSE IF b < 0 /\ a < MinInt - b THEN MaxInt - (((MinInt - b) - a) - 1)
    ELSE a + b

\* The run-time panic of a slice expression whose bounds are out of range.
ErrPanic == "panic: runtime error: slice bounds out of range"

\* The pagination of result, the non-deleted items in the order in which the
\* loop over the map met them: result[offset:end].
MemoryStorage_List(result, limit, offset) ==
    IF offset > Len(result) THEN [ret |-> <<>>, err |-> ErrNil]
    ELSE LET sum == AddInt(offset, limit)
             end == IF sum > Len(result) THEN Len(result) ELSE sum
         IN  IF offset < 0 \/ end < offset
             THEN [ret |-> <<>>, err |-> ErrPanic]
             ELSE [ret |-> SubSeq(result, offset + 1, end), err |-> ErrNil]

(***************************************************************************)
(* api.Handler (handlers.go), on the MemoryStorage it is given.            *)
(***************************************************************************)
\* Request bodies that do not decode into an Item: text that is no JSON, and
\* a JSON object without createdAt and updatedAt in RFC3339, on which
\* time.Parse in Item.UnmarshalJSON fails.
Malformed == [kind |-> "body", text |-> "{"]

Untimed == [kind |-> "body", text |-> "{name: Git API v2, version: 2}"]

\* The bodies of the requests: an Item stands for the JSON text it is
\* marshalled into.
Bodies == InputItems \cup {Malformed, Untimed}

\* json.NewDecoder(r.Body).Decode(&item)
Decode(body) ==
    IF IsItem(body) THEN [item |-> body, err |-> ErrNil]
    ELSE [item |-> Nil, err |-> "invalid request body"]

\* PUT /api/items/{id}: a body that does not decode is answered with 400 and
\* the store is not called; the decoded body gets the id of the path; an
\* error of the store is answered with 500 and a fixed text.
Handler_UpdateItem(items, id, body) ==
    IF Decode(body).err # ErrNil
    THEN [items |-> items, status |-> 400, body |-> "Invalid request payload"]
    ELSE LET r == MemoryStorage_UpdateItem(
                      items, [Decode(body).item EXCEPT !.id = id])
         IN  IF r.err # ErrNil
             THEN [items |-> r.items, status |-> 500,
                   body |-> "Failed to update item"]
             ELSE [items |-> r.items, status |-> 200, body |-> r.ret]

(***************************************************************************)
(* State.                                                                  *)
(***************************************************************************)
VARIABLES
    handle,     \* the store this process constructed and calls
    r_items,    \* CentralRegistry.items
    ms_items,   \* MemoryStorage.items
    s_items,    \* ItemStore.items
    now,        \* what time.Now() shows
    last,       \* the latest call: its operation, arguments and results
    regOK,      \* per identity, the Register calls that returned nil
    touched,    \* per identity, whether an operation other than Register
                \* or a query was called on it
    pre,        \* the entry as it was before the latest soft delete that
                \* returned nil, until another mutation of that identity
    mu,         \* the store's mutex: "free" or the thread that holds it
    th,         \* per thread, the call it is in and how far it has come
    start,      \* the store's map when the threads were started
    readers,    \* the threads that hold the store's mutex for reading
    imu,        \* per entry, the mutex of the Item
    loader      \* the loader's walk over the directory, and the process

vars == <<handle, r_items, ms_items, s_items, now, last, regOK, touched, pre,
          mu, th, start, readers, imu, loader>>

\* The stores a process constructs: NewCentralRegistry() (README.md:87),
\* NewMemoryStorageAdapter(NewMemoryStorage()) (README.md:146-152),
\* NewItemStore() (item.go:76).
Handles == {"CentralRegistry", "MemoryStorageAdapter", "ItemStore"}

AllIds == Ids \cup Uuids

\* The record of a call.
Call(op, id, arg, err, found, ret, list) ==
    [op |-> op, id |-> id, arg |-> arg, err |-> err, found |-> found,
     ret |-> ret, list |-> list]

\* The history of Register calls after a call of Register on id ended err.
Registered(id, err) ==
    /\ regOK' = IF err = ErrNil /\ ~touched[id] /\ regOK[id] < MaxVersion
                THEN [regOK EXCEPT ![id] = @ + 1] ELSE regOK
    /\ UNCHANGED touched

\* The history after a call of another mutating operation on id.
Touched(id) ==
    /\ touched' = [touched EXCEPT ![id] = TRUE]
    /\ regOK' = [regOK EXCEPT ![id] = 0]

\* The fields of an entry that a soft delete and a restore leave alone.
Payload(e) ==
    [name |-> e.name, type |-> e.type, meta |-> e.meta, version |-> e.version]

\* What is remembered of an entry: its payload and whether it was soft-deleted.
Snapshot(e) ==
    [name |-> e.name, type |-> e.type, meta |-> e.meta, version |-> e.version,
     deleted |-> e.deleted]

\* No soft delete is remembered.
NoPre == [id |-> "", entry |-> Nil]

\* A soft delete is remembered until the call that follows the restore.
AfterRestore == last.op \in {"Restore", "RestoreItem"}

\* The history after a call that mutates nothing.
Keep == pre' = IF AfterRestore THEN NoPre ELSE pre

\* The history after a soft delete of id, whose entry was e, ended err.
Remember(id, e, err) ==
    pre' = IF err = ErrNil THEN [id |-> id, entry |-> Snapshot(e)]
           ELSE IF AfterRestore THEN NoPre ELSE pre

\* The history after a mutation of id that is no soft delete and no restore.
Forget(id) ==
    pre' = IF AfterRestore \/ pre.id = id THEN NoPre ELSE pre

\* The goroutines that call the store at the same time.
Threads == {"t1", "t2"}

\* A thread that is in no call.
Idle ==
    [pc |-> "idle", op |-> "none", arg |-> Nil, err |-> ErrNil, ret |-> Nil,
     before |-> {}]

\* The loader before its walk over the directory dir.
NewLoader(dir) ==
    [kind |-> "BuiltinLoader", files |-> dir, pos |-> 1, tried |-> {},
     hooked |-> {}, err |-> ErrNil, phase |-> "walk", proc |-> "loading"]

\* The loader where no loader is constructed.
NoLoader == NewLoader(<<>>)

Init ==
    /\ handle \in Handles
    /\ r_items = EmptyMap
    /\ ms_items = EmptyMap
    /\ s_items = EmptyMap
    /\ now = 1
    /\ last = Call("none", "", Nil, ErrNil, FALSE, Nil, <<>>)
    /\ regOK = [i \in AllIds |-> 0]
    /\ touched = [i \in AllIds |-> FALSE]
    /\ pre = NoPre
    /\ mu = "free"
    /\ th = [t \in Threads |-> Idle]
    /\ readers = {}
    /\ imu = <<>>
    /\ loader = NoLoader
    /\ start = EmptyMap

(***************************************************************************)
(* The Registry interface (registry.go:17-23), on the store constructed.   *)
(***************************************************************************)
Register(item) ==
    \/ /\ handle = "CentralRegistry"
       /\ LET r == CentralRegistry_Register(r_items, item)
          IN  /\ r_items' = r.items
              /\ last' = Call("Register", GetID(item), item, r.err, FALSE, Nil, <<>>)
              /\ Registered(GetID(item), r.err)
              /\ IF r.err = ErrNil THEN Forget(GetID(item)) ELSE Keep
       /\ UNCHANGED <<loader, readers, imu, mu, th, start, handle, ms_items, s_items, now>>
    \/ /\ handle = "MemoryStorageAdapter"
       /\ LET r == Adapter_Register(ms_items, item)
          IN  /\ ms_items' = r.items
              /\ last' = Call("Register", GetID(item), item, r.err, FALSE, Nil, <<>>)
              /\ Registered(GetID(item), r.err)
              /\ IF r.err = ErrNil THEN Forget(GetID(item)) ELSE Keep
       /\ UNCHANGED <<loader, readers, imu, mu, th, start, handle, r_items, s_items, now>>

Get(id) ==
    \/ /\ handle = "CentralRegistry"
       /\ LET r == CentralRegistry_Get(r_items, id)
          IN  last' = Call("Get", id, Nil, ErrNil, r.found, r.ret, <<>>)
       /\ UNCHANGED <<loader, readers, imu, mu, th, start, handle, r_items, ms_items, s_items, now, regOK, touched>>
       /\ Keep
    \/ /\ handle = "MemoryStorageAdapter"
       /\ LET r == Adapter_Get(ms_items, id)
          IN  last' = Call("Get", id, Nil, ErrNil, r.found, r.ret, <<>>)
       /\ UNCHANGED <<loader, readers, imu, mu, th, start, handle, r_items, ms_items, s_items, now, regOK, touched>>
       /\ Keep

Unregister(id) ==
    \/ /\ handle = "CentralRegistry"
       /\ LET r == CentralRegistry_Unregister(r_items, id)
          IN  /\ r_items' = r.items
              /\ last' = Call("Unregister", id, Nil, r.err, FALSE, Nil, <<>>)
              /\ IF r.err = ErrNil THEN Forget(id) ELSE Keep
       /\ Touched(id)
       /\ UNCHANGED <<loader, readers, imu, mu, th, start, handle, ms_items, s_items, now>>
    \/ /\ handle = "MemoryStorageAdapter"
       /\ LET r == Adapter_Unregister(ms_items, id, now)
          IN  /\ ms_items' = r.items
              /\ last' = Call("Unregister", id, Nil, r.err, FALSE, Nil, <<>>)
              /\ Remember(id, ms_items[id], r.err)
       /\ Touched(id)
       /\ UNCHANGED <<loader, readers, imu, mu, th, start, handle, r_items, s_items, now>>

List ==
    \/ /\ handle = "CentralRegistry"
       /\ \E l \in Orderings(CentralRegistry_List(r_items)) :
              last' = Call("List", "", Nil, ErrNil, FALSE, Nil, l)
       /\ UNCHANGED <<loader, readers, imu, mu, th, start, handle, r_items, ms_items, s_items, now, regOK, touched>>
       /\ Keep
    \/ /\ handle = "MemoryStorageAdapter"
       /\ \E l \in Orderings(Adapter_List(ms_items)) :
              last' = Call("List", "", Nil, ErrNil, FALSE, Nil, l)
       /\ UNCHANGED <<loader, readers, imu, mu, th, start, handle, r_items, ms_items, s_items, now, regOK, touched>>
       /\ Keep

\* CentralRegistry.ListByType: the whole loop, the type reads included,
\* runs under the read lock of the registry (registry.go:74-84).
ListByType(itemType) ==
    /\ handle = "CentralRegistry"
    /\ \E l \in Orderings(CentralRegistry_ListByType(r_items, itemType)) :
           last' = Call("ListByType", itemType, Nil, ErrNil, FALSE, Nil, l)
    /\ UNCHANGED <<loader, readers, imu, mu, th, start, handle, r_items, ms_items, s_items, now, regOK, touched>>
    /\ Keep

(***************************************************************************)
(* MemoryStorageAdapter.ListByType (memory_adapter.go:50-58) holds no lock *)
(* of its own.  a.List() collects the pointers of the live entries under   *)
(* the read lock of the storage and releases it when it returns            *)
(* (memory.go:145-157); the loop then reads the Type of one pointer after  *)
(* the other with no lock held, and the slice is returned at the end.      *)
(* Every call of another goroutine can fall between two of these steps.    *)
(***************************************************************************)
\* The goroutine that is in ListByType of the adapter.
Lister == "t1"

\* The goroutine inside the loop of ListByType(itemType): items are the ids
\* of the pointers a.List() returned that the loop has yet to visit, in the
\* order of the slice, result those it has appended.
Listing(itemType, items, result) ==
    [pc |-> "GetType", op |-> "ListByType", arg |-> itemType, err |-> ErrNil,
     ret |-> result, before |-> items]

\* a.List() inside ListByType(itemType): the live entries as they are now,
\* in one of the orders of the map.
ListByType_List(itemType) ==
    /\ handle = "MemoryStorageAdapter"
    /\ th[Lister].pc = "idle"
    /\ \E items \in Orderings({GetID(e) : e \in Adapter_List(ms_items)}) :
           th' = [th EXCEPT ![Lister] = Listing(itemType, items, <<>>)]
    /\ last' = Call("a.List", itemType, Nil, ErrNil, FALSE, Nil, <<>>)
    /\ UNCHANGED <<loader, readers, imu, mu, start, handle, r_items, ms_items, s_items, now, regOK, touched>>
    /\ Keep

\* One turn of the loop: item.GetType() on the next pointer, as the entry is
\* now, and the append if it is the type asked for.
ListByType_GetType ==
    /\ handle = "MemoryStorageAdapter"
    /\ th[Lister].pc = "GetType"
    /\ th[Lister].before # <<>>
    /\ LET c == th[Lister]
           id == Head(c.before)
       IN  th' = [th EXCEPT ![Lister] =
                     Listing(c.arg, Tail(c.before),
                             IF Adapter_ListByType_Keeps(ms_items[id], c.arg)
                             THEN Append(c.ret, id) ELSE c.ret)]
    /\ UNCHANGED <<loader, readers, imu, mu, start, handle, r_items, ms_items, s_items, now, regOK, touched, pre, last>>

\* The loop is over: the caller receives the pointers appended, which show
\* the entries as they are now.
ListByType_Return ==
    /\ handle = "MemoryStorageAdapter"
    /\ th[Lister].pc = "GetType"
    /\ th[Lister].before = <<>>
    /\ LET c == th[Lister]
       IN  last' = Call("ListByType", c.arg, Nil, ErrNil, FALSE, Nil,
                        [i \in 1..Len(c.ret) |-> ms_items[c.ret[i]]])
    /\ th' = [th EXCEPT ![Lister] = Idle]
    /\ UNCHANGED <<loader, readers, imu, mu, start, handle, r_items, ms_items, s_items, now, regOK, touched>>
    /\ Keep

(***************************************************************************)
(* The MemoryStorage methods the Registry interface does not have, called  *)
(* on the storage behind the adapter (handlers.go:88, memory.go:24, 84).   *)
(***************************************************************************)
Store(item) ==
    /\ handle = "MemoryStorageAdapter"
    /\ item.id \in DOMAIN ms_items => ms_items[item.id].version < MaxVersion
    /\ \E itemType \in TypeArguments(item) :
           LET r == MemoryStorage_Store(ms_items, item, now, itemType)
           IN  /\ ms_items' = r.items
               /\ last' = Call("Store", item.id, item, r.err, FALSE, Nil, <<>>)
    /\ Touched(item.id)
    /\ Forget(item.id)
    /\ UNCHANGED <<loader, readers, imu, mu, th, start, handle, r_items, s_items, now>>

UpdateItem(item) ==
    /\ handle = "MemoryStorageAdapter"
    /\ item.id \in DOMAIN ms_items => ms_items[item.id].version < MaxVersion
    /\ LET r == MemoryStorage_UpdateItem(ms_items, item)
       IN  /\ ms_items' = r.items
           /\ last' = Call("UpdateItem", item.id, item, r.err, FALSE, r.ret, <<>>)
           /\ IF r.err = ErrNil THEN Forget(item.id) ELSE Keep
    /\ Touched(item.id)
    /\ UNCHANGED <<loader, readers, imu, mu, th, start, handle, r_items, s_items, now>>

Restore(id) ==
    /\ handle = "MemoryStorageAdapter"
    /\ LET r == MemoryStorage_Restore(ms_items, id, now)
       IN  /\ ms_items' = r.items
           /\ last' = Call("Restore", id, Nil, r.err, FALSE, Nil, <<>>)
    /\ Touched(id)
    /\ pre' = pre
    /\ UNCHANGED <<loader, readers, imu, mu, th, start, handle, r_items, s_items, now>>

\* The limits and offsets callers page with.
Limits == {-1, 0, 1, 2, MaxInt}

Offsets == {-1, 0, 1, 2, 3}

\* The call continues the paging of the latest call: same limit, the offset
\* advanced by it, and the page before was not empty.
Continues(limit, offset) ==
    /\ last.op = "ListPaginated" /\ last.err = ErrNil
    /\ last.list # <<>>
    /\ last.arg.limit = limit
    /\ AddInt(last.arg.offset, limit) = offset

\* What is recorded of a paging call: its arguments, the offset the paging
\* began at and the pages it returned since, concatenated.
Paging(limit, offset, page) ==
    [kind |-> "page", limit |-> limit, offset |-> offset,
     from |-> IF Continues(limit, offset) THEN last.arg.from ELSE offset,
     seen |-> (IF Continues(limit, offset) THEN last.arg.seen ELSE <<>>)
              \o page]

ListPaginated(limit, offset) ==
    /\ handle = "MemoryStorageAdapter"
    /\ \E l \in Orderings(MemoryStorage_ListItems(ms_items)) :
           LET r == MemoryStorage_List(l, limit, offset)
           IN  last' = Call("ListPaginated", "", Paging(limit, offset, r.ret),
                            r.err, FALSE, Nil, r.ret)
    /\ UNCHANGED <<loader, readers, imu, mu, th, start, handle, r_items, ms_items, s_items, now, regOK, touched>>
    /\ Keep

(***************************************************************************)
(* The ItemStore methods (item.go:83-163).                                 *)
(***************************************************************************)
UpsertItem(item, u) ==
    /\ handle = "ItemStore"
    /\ item.id = "" => u \notin DOMAIN s_items
    /\ LET r == ItemStore_UpsertItem(s_items, item, now, u)
       IN  /\ s_items' = r.items
           /\ last' = Call("UpsertItem", r.ret.id, item, r.err, FALSE, r.ret, <<>>)
           /\ Touched(r.ret.id)
           /\ IF r.items # s_items THEN Forget(r.ret.id) ELSE Keep
    /\ UNCHANGED <<loader, readers, imu, mu, th, start, handle, r_items, ms_items, now>>

GetItem(id) ==
    /\ handle = "ItemStore"
    /\ LET r == ItemStore_GetItem(s_items, id)
       IN  last' = Call("GetItem", id, Nil, r.err, r.err = ErrNil, r.ret, <<>>)
    /\ UNCHANGED <<loader, readers, imu, mu, th, start, handle, r_items, ms_items, s_items, now, regOK, touched>>
       /\ Keep

DeleteItem(id) ==
    /\ handle = "ItemStore"
    /\ LET r == ItemStore_DeleteItem(s_items, id, now)
       IN  /\ s_items' = r.items
           /\ last' = Call("DeleteItem", id, Nil, r.err, FALSE, Nil, <<>>)
           /\ Remember(id, s_items[id], r.err)
    /\ Touched(id)
    /\ UNCHANGED <<loader, readers, imu, mu, th, start, handle, r_items, ms_items, now>>

RestoreItem(id) ==
    /\ handle = "ItemStore"
    /\ LET r == ItemStore_RestoreItem(s_items, id, now)
       IN  /\ s_items' = r.items
           /\ last' = Call("RestoreItem", id, Nil, r.err, FALSE, Nil, <<>>)
    /\ Touched(id)
    /\ pre' = pre
    /\ UNCHANGED <<loader, readers, imu, mu, th, start, handle, r_items, ms_items, now>>

ListItems ==
    /\ handle = "ItemStore"
    /\ \E l \in Orderings(ItemStore_ListItems(s_items)) :
           last' = Call("ListItems", "", Nil, ErrNil, FALSE, Nil, l)
    /\ UNCHANGED <<loader, readers, imu, mu, th, start, handle, r_items, ms_items, s_items, now, regOK, touched>>
       /\ Keep

Next ==
    \/ \E item \in InputRegisterables : Register(item)
    \/ \E id \in Ids : Get(id)
    \/ \E id \in Ids : Unregister(id)
    \/ List
    \/ \E t \in Types : ListByType(t)
    \/ \E item \in InputItems : Store(item)
    \/ \E item \in InputItems : UpdateItem(item)
    \/ \E id \in Ids : Restore(id)
    \/ \E item \in InputItems : \E u \in Uuids : UpsertItem(item, u)
    \/ \E id \in AllIds : GetItem(id)
    \/ \E id \in AllIds : DeleteItem(id)
    \/ \E id \in AllIds : RestoreItem(id)
    \/ ListItems

Spec == Init /\ [][Next]_vars

(***************************************************************************)
(* Paging: a registry is filled and emptied through the Registry interface *)
(* and the storage behind the adapter is read page by page.                *)
(***************************************************************************)
InitPage == Init /\ handle \in {"CentralRegistry", "MemoryStorageAdapter"}

NextPage ==
    \/ \E item \in InputRegisterables : Register(item)
    \/ \E id \in Ids : Unregister(id)
    \/ \E limit \in Limits : \E offset \in Offsets : ListPaginated(limit, offset)

SpecPage == InitPage /\ [][NextPage]_vars

(***************************************************************************)
(* Threads: two goroutines call the mutating methods of one store at the   *)
(* same time.  A method is Lock, the lookup in the map, the write, and the *)
(* deferred Unlock (memory.go:160-171, 208-223; registry.go:37-45).        *)
(***************************************************************************)
\* sync.Mutex.Lock() returns when the mutex is not held.
MutexFree_Always(m) == TRUE

MutexFree(m) == m = "free"

\* The store maps the threads can be started on: an empty one, and one that
\* holds the entry a Register of "git" created.
Preloaded(h) ==
    LET item == MkItem("git", "API", "Git API", Meta1, 0)
    IN  {EmptyMap,
         IF h = "CentralRegistry"
         THEN CentralRegistry_Register(EmptyMap, item).items
         ELSE Adapter_Register(EmptyMap, item).items}

InitConc ==
    /\ handle \in {"CentralRegistry", "MemoryStorageAdapter"}
    /\ \E m \in Preloaded(handle) :
          /\ r_items = (IF handle = "CentralRegistry" THEN m ELSE EmptyMap)
          /\ ms_items = (IF handle = "CentralRegistry" THEN EmptyMap ELSE m)
          /\ start = m
    /\ s_items = EmptyMap
    /\ now = 1
    /\ last = Call("none", "", Nil, ErrNil, FALSE, Nil, <<>>)
    /\ regOK = [i \in AllIds |-> 0]
    /\ touched = [i \in AllIds |-> FALSE]
    /\ pre = NoPre
    /\ mu = "free"
    /\ th = [t \in Threads |-> Idle]
    /\ readers = {}
    /\ imu = <<>>
    /\ loader = NoLoader

\* What the threads leave alone.
Sequential ==
    <<handle, s_items, now, last, regOK, touched, pre, start, readers, imu,
      loader>>

\* The thread's map: that of the store the process constructed.
Items == IF handle = "CentralRegistry" THEN r_items ELSE ms_items

\* The thread's map becomes m.
SetItems(m) ==
    IF handle = "CentralRegistry"
    THEN r_items' = m /\ UNCHANGED ms_items
    ELSE ms_items' = m /\ UNCHANGED r_items

\* Thread t calls op with item.  The adapter's Register asserts the type
\* before it calls CreateItem (memory_adapter.go:19-23), outside the lock.
Invoke(t, op, item) ==
    /\ th[t].pc = "idle"
    /\ op = "UpdateItem" => (handle = "MemoryStorageAdapter" /\ IsItem(item))
    /\ LET c == [Idle EXCEPT !.op = op, !.arg = item,
                    !.before = {u \in Threads : th[u].pc = "done"}]
       IN  th' = [th EXCEPT ![t] =
                     IF handle = "MemoryStorageAdapter" /\ ~IsItem(item)
                     THEN [c EXCEPT !.pc = "done", !.err = ErrInvalidType]
                     ELSE [c EXCEPT !.pc = "lock"]]
    /\ UNCHANGED <<Sequential, r_items, ms_items, mu>>

\* mu.Lock()
Lock(t) ==
    /\ th[t].pc = "lock"
    /\ MutexFree(mu)
    /\ mu' = t
    /\ th' = [th EXCEPT ![t].pc = "check"]
    /\ UNCHANGED <<Sequential, r_items, ms_items>>

\* The error the method returns after its lookup of the id, or nil.
Lookup(op, item, items) ==
    LET id == GetID(item)
    IN  IF op = "UpdateItem"
        THEN IF id \in DOMAIN items THEN ErrNil ELSE ErrNotFound
        ELSE IF id \notin DOMAIN items THEN ErrNil
        ELSE IF handle = "CentralRegistry" THEN ErrAlreadyRegistered(id)
        ELSE ErrExists

\* _, exists := items[id]
Check(t) ==
    /\ th[t].pc = "check"
    /\ LET err == Lookup(th[t].op, th[t].arg, Items)
       IN  th' = [th EXCEPT ![t].err = err,
                            ![t].pc = IF err = ErrNil THEN "write"
                                      ELSE "unlock"]
    /\ UNCHANGED <<Sequential, r_items, ms_items, mu>>

\* The entry the method writes into the map, and returns.
Written(op, item, items) ==
    IF op = "UpdateItem"
    THEN [items[item.id] EXCEPT !.name = item.name, !.meta = item.meta,
                                !.version = @ + 1]
    ELSE IF handle = "CentralRegistry" THEN item
    ELSE [item EXCEPT !.version = 1]

\* items[id] = item, or the assignments to the existing entry
Write(t) ==
    /\ th[t].pc = "write"
    /\ LET e == Written(th[t].op, th[t].arg, Items)
       IN  /\ SetItems(Put(Items, GetID(th[t].arg), e))
           /\ th' = [th EXCEPT ![t].pc = "unlock",
                        ![t].ret = IF th[t].op = "UpdateItem" THEN e ELSE Nil]
    /\ UNCHANGED <<Sequential, mu>>

\* The deferred mu.Unlock(), and the return.
Unlock(t) ==
    /\ th[t].pc = "unlock"
    /\ mu' = "free"
    /\ th' = [th EXCEPT ![t].pc = "done"]
    /\ UNCHANGED <<Sequential, r_items, ms_items>>

NextConc ==
    \/ \E t \in Threads : \E item \in InputRegisterables :
           Invoke(t, "Register", item)
    \/ \E t \in Threads : \E item \in InputItems : Invoke(t, "UpdateItem", item)
    \/ \E t \in Threads : Lock(t)
    \/ \E t \in Threads : Check(t)
    \/ \E t \in Threads : Write(t)
    \/ \E t \in Threads : Unlock(t)

SpecConc == InitConc /\ [][NextConc]_vars

(***************************************************************************)
(* Steps: two goroutines call the methods of the MemoryStorage, of its     *)
(* adapter and of the HTTP handler at the same time, and every method is   *)
(* taken apart into its lock operations, its accesses to the map and its   *)
(* reads and writes of single fields of an entry.  A thread's pc is the    *)
(* sequence of the steps it still has to take, each a pair <<step, field>>. *)
(***************************************************************************)
\* How many calls the second thread makes, one after the other; the first
\* thread makes one.
MaxCalls == 2

Budget == [t \in Threads |-> IF t = "t1" THEN 1 ELSE MaxCalls]

\* The Item the threads pass in.
ThreadItem == MkItem("git", "DB", "Git API v2", Meta2, 2)

\* The type tags the threads ask ListByType for: that of the preloaded entry
\* and those a Store of ThreadItem can write.
ThreadTypes == {"API"} \cup TypeArguments(ThreadItem)

\* The calls that only read.
Queries == {"List", "ListByType"}

\* The calls a thread can make: op, the id (or type tag) and the value.
ThreadCalls ==
    {[op |-> o, id |-> "git", arg |-> ThreadItem] :
        o \in {"CreateItem", "Store", "UpdateItem"}}
    \cup {[op |-> o, id |-> "git", arg |-> Nil] :
        o \in {"DeleteItem", "Restore", "Handler.GetItem"}}
    \cup {[op |-> "List", id |-> "", arg |-> Nil]}
    \cup {[op |-> "ListByType", id |-> ty, arg |-> Nil] : ty \in ThreadTypes}

\* A thread that has made n calls and is in none.
Resting(n) ==
    [op |-> "none", id |-> "", arg |-> Nil, pc |-> <<>>, n |-> n,
     cur |-> "", todo |-> {}, got |-> {}, reg |-> Nil, err |-> ErrNil,
     ret |-> {}, seen |-> {}]

\* An unlocked sync.RWMutex.
Unlocked == [w |-> "free", r |-> {}]

\* Lock() returns when no one holds the mutex; RLock() when no writer does.
CanLock(m) == m.w = "free" /\ m.r = {}

CanRLock(m) == m.w = "free"

\* The readers of a mutex after RUnlock() of t.
Without_Nothing(r, t) == r

Without(r, t) == r \ {t}

\* Item.IsDeleted (item.go:47-51).
ProgIsDeleted == << <<"IRLock", "">>, <<"Read", "deleted">>, <<"IRUnlock", "">> >>

\* json.NewEncoder(w).Encode(item) (handlers.go:74, item.go:166-177): the
\* exported fields of the item are read.
ProgEncode ==
    << <<"Read", "name">>, <<"Read", "type">>, <<"Read", "meta">>,
       <<"Read", "version">>, <<"Read", "updatedAt">> >>

\* The steps of a call from its entry to its lookup or loop.
ProgEnter(op) ==
    CASE op = "Handler.GetItem" -> << <<"RLock", "">>, <<"Find", "">> >>
      [] op = "List" ->
            << <<"RLock", "">>, <<"Range", "">>, <<"Next", "">>,
               <<"RUnlock", "">>, <<"Return", "">> >>
      [] op = "ListByType" ->
            << <<"RLock", "">>, <<"Range", "">>, <<"Next", "">>,
               <<"RUnlock", "">>, <<"Filter", "">>, <<"NextT", "">>,
               <<"Return", "">> >>
      [] OTHER -> << <<"Lock", "">>, <<"Find", "">> >>

\* The steps of a call after its lookup found the id present.
ProgPresent(op) ==
    CASE op = "Handler.GetItem" -> ProgIsDeleted \o << <<"Test", "">> >>
      [] op = "CreateItem" -> << <<"Unlock", "">>, <<"Return", "">> >>
      [] op = "Store" ->
            << <<"ILock", "">>, <<"Write", "name">>, <<"Write", "type">>,
               <<"Write", "meta">>, <<"Write", "version">>,
               <<"Write", "updatedAt">>, <<"IUnlock", "">>,
               <<"Unlock", "">>, <<"Return", "">> >>
      [] op = "UpdateItem" ->
            << <<"Write", "name">>, <<"Write", "meta">>,
               <<"Write", "version">>, <<"Unlock", "">>, <<"Return", "">> >>
      [] OTHER ->
            << <<"ILock", "">>, <<"Write", "deleted">>,
               <<"Write", "updatedAt">>, <<"IUnlock", "">>,
               <<"Unlock", "">>, <<"Return", "">> >>

\* The steps of a call after its lookup found the id absent.
ProgAbsent(op) ==
    CASE op = "Handler.GetItem" -> << <<"RUnlock", "">>, <<"Return", "">> >>
      [] op \in {"CreateItem", "Store"} ->
            << <<"Insert", "">>, <<"Unlock", "">>, <<"Return", "">> >>
      [] OTHER -> << <<"Unlock", "">>, <<"Return", "">> >>

\* The error of a call whose lookup found the id present, or absent.
ErrPresent(op) == IF op = "CreateItem" THEN ErrExists ELSE ErrNil

ErrAbsent(op) == IF op \in {"CreateItem", "Store"} THEN ErrNil ELSE ErrNotFound

\* The value a call writes into a field of the entry e; itemType is what
\* Update receives as its second argument.
WriteValue(op, f, arg, e, t, itemType) ==
    CASE f = "name" -> arg.name
      [] f = "type" -> itemType
      [] f = "meta" -> arg.meta
      [] f = "version" -> e.version + 1
      [] f = "deleted" -> (op = "DeleteItem")
      [] OTHER -> t

\* The entry e with the value v in its field f.
WithField(e, f, v) ==
    CASE f = "name" -> [e EXCEPT !.name = v]
      [] f = "type" -> [e EXCEPT !.type = v]
      [] f = "meta" -> [e EXCEPT !.meta = v]
      [] f = "version" -> [e EXCEPT !.version = v]
      [] f = "deleted" -> [e EXCEPT !.deleted = v]
      [] OTHER -> [e EXCEPT !.updatedAt = v]

\* The field f of the entry e.
FieldOf(e, f) ==
    CASE f = "name" -> e.name
      [] f = "type" -> e.type
      [] f = "meta" -> e.meta
      [] f = "version" -> e.version
      [] f = "deleted" -> e.deleted
      [] OTHER -> e.updatedAt

\* The entry CreateItem or Store puts into the map for an absent id.
Inserted(op, item) ==
    IF op = "CreateItem" THEN [item EXCEPT !.version = 1] ELSE item

\* What the query c returns on the map items, as a set of ids.
Answer(c, items) ==
    IF c.op = "List" THEN {GetID(e) : e \in Adapter_List(items)}
    ELSE {GetID(e) : e \in Adapter_ListByType(items, c.id)}

\* The threads thr, after the map became items: every query that is under
\* way has one more state of the map it ran alongside.
Observe(thr, items) ==
    [u \in Threads |->
        IF Len(thr[u].pc) > 0 /\ thr[u].op \in Queries
        THEN [thr[u] EXCEPT !.seen = @ \cup {Answer(thr[u], items)}]
        ELSE thr[u]]

\* Thread t is at the step s.
At(t, s) == Len(th[t].pc) > 0 /\ Head(th[t].pc)[1] = s

InitSteps ==
    /\ handle = "MemoryStorageAdapter"
    /\ ms_items \in Preloaded(handle)
    /\ start = ms_items
    /\ r_items = EmptyMap
    /\ s_items = EmptyMap
    /\ now = 1
    /\ last = Call("none", "", Nil, ErrNil, FALSE, Nil, <<>>)
    /\ regOK = [i \in AllIds |-> 0]
    /\ touched = [i \in AllIds |-> FALSE]
    /\ pre = NoPre
    /\ mu = "free"
    /\ readers = {}
    /\ imu = [i \in Ids |-> Unlocked]
    /\ loader = NoLoader
    /\ th = [t \in Threads |-> Resting(0)]

\* What the steps leave alone.
Apart ==
    <<handle, r_items, s_items, now, last, regOK, touched, pre, start, loader>>

\* Thread t calls c.
Enter(t, c) ==
    /\ Len(th[t].pc) = 0
    /\ th[t].n < Budget[t]
    /\ th' = [th EXCEPT ![t] =
                 [Resting(th[t].n) EXCEPT
                     !.op = c.op, !.id = c.id, !.arg = c.arg,
                     !.pc = ProgEnter(c.op),
                     !.seen = IF c.op \in Queries
                              THEN {Answer(c, ms_items)} ELSE {}]]
    /\ UNCHANGED <<Apart, ms_items, mu, readers, imu>>

\* ms.mu.Lock()
AcquireStore(t) ==
    /\ At(t, "Lock")
    /\ CanLock([w |-> mu, r |-> readers])
    /\ mu' = t
    /\ th' = [th EXCEPT ![t].pc = Tail(@)]
    /\ UNCHANGED <<Apart, ms_items, readers, imu>>

\* ms.mu.RLock()
AcquireStoreShared(t) ==
    /\ At(t, "RLock")
    /\ CanRLock([w |-> mu, r |-> readers])
    /\ readers' = readers \cup {t}
    /\ th' = [th EXCEPT ![t].pc = Tail(@)]
    /\ UNCHANGED <<Apart, ms_items, mu, imu>>

\* defer ms.mu.Unlock()
ReleaseStore(t) ==
    /\ At(t, "Unlock")
    /\ mu' = "free"
    /\ th' = [th EXCEPT ![t].pc = Tail(@)]
    /\ UNCHANGED <<Apart, ms_items, readers, imu>>

\* defer ms.mu.RUnlock()
ReleaseStoreShared(t) ==
    /\ At(t, "RUnlock")
    /\ readers' = Without(readers, t)
    /\ th' = [th EXCEPT ![t].pc = Tail(@)]
    /\ UNCHANGED <<Apart, ms_items, mu, imu>>

\* i.mu.Lock()
AcquireItem(t) ==
    /\ At(t, "ILock")
    /\ CanLock(imu[th[t].cur])
    /\ imu' = [imu EXCEPT ![th[t].cur].w = t]
    /\ th' = [th EXCEPT ![t].pc = Tail(@)]
    /\ UNCHANGED <<Apart, ms_items, mu, readers>>

\* i.mu.RLock()
AcquireItemShared(t) ==
    /\ At(t, "IRLock")
    /\ CanRLock(imu[th[t].cur])
    /\ imu' = [imu EXCEPT ![th[t].cur].r = @ \cup {t}]
    /\ th' = [th EXCEPT ![t].pc = Tail(@)]
    /\ UNCHANGED <<Apart, ms_items, mu, readers>>

\* defer i.mu.Unlock()
ReleaseItem(t) ==
    /\ At(t, "IUnlock")
    /\ imu' = [imu EXCEPT ![th[t].cur].w = "free"]
    /\ th' = [th EXCEPT ![t].pc = Tail(@)]
    /\ UNCHANGED <<Apart, ms_items, mu, readers>>

\* defer i.mu.RUnlock()
ReleaseItemShared(t) ==
    /\ At(t, "IRUnlock")
    /\ imu' = [imu EXCEPT ![th[t].cur].r = Without(@, t)]
    /\ th' = [th EXCEPT ![t].pc = Tail(@)]
    /\ UNCHANGED <<Apart, ms_items, mu, readers>>

\* item, ok := ms.items[id]
Find(t) ==
    /\ At(t, "Find")
    /\ LET op == th[t].op
           ok == th[t].id \in DOMAIN ms_items
       IN  th' = [th EXCEPT
                     ![t].cur = th[t].id,
                     ![t].err = IF ok THEN ErrPresent(op) ELSE ErrAbsent(op),
                     ![t].pc = IF ok THEN ProgPresent(op) ELSE ProgAbsent(op)]
    /\ UNCHANGED <<Apart, ms_items, mu, readers, imu>>

\* for _, item := range ms.items: the items that are to be visited.
Range(t) ==
    /\ At(t, "Range")
    /\ th' = [th EXCEPT ![t].todo = DOMAIN ms_items, ![t].got = {},
                        ![t].pc = Tail(@)]
    /\ UNCHANGED <<Apart, ms_items, mu, readers, imu>>

\* The loop goes to its next item, in any order, or is left: the loop of
\* ListItems tests IsDeleted(), that of ListByType reads GetType().
Iterate(t) ==
    /\ At(t, "Next") \/ At(t, "NextT")
    /\ \/ /\ th[t].todo = {}
          /\ th' = [th EXCEPT ![t].pc = Tail(@)]
       \/ \E id \in th[t].todo :
             th' = [th EXCEPT
                       ![t].cur = id,
                       ![t].todo = @ \ {id},
                       ![t].pc = IF At(t, "Next")
                                 THEN ProgIsDeleted \o << <<"Append", "">> >> \o @
                                 ELSE << <<"Read", "type">>, <<"AppendT", "">> >> \o @]
    /\ UNCHANGED <<Apart, ms_items, mu, readers, imu>>

\* The tests on what was read, and the appends to the result.
Decide(t) ==
    /\ Len(th[t].pc) > 0
    /\ LET s == Head(th[t].pc)[1]
           c == th[t]
       IN  /\ s \in {"Test", "Append", "Filter", "AppendT"}
           /\ th' = [th EXCEPT ![t] =
                CASE s = "Test" ->
                        IF c.reg
                        THEN [c EXCEPT !.err = ErrDeleted,
                                 !.pc = << <<"RUnlock", "">>, <<"Return", "">> >>]
                        ELSE [c EXCEPT
                                 !.pc = << <<"RUnlock", "">> >> \o ProgEncode
                                        \o << <<"Return", "">> >>]
                  [] s = "Append" ->
                        [c EXCEPT !.got = IF c.reg THEN @ ELSE @ \cup {c.cur},
                                  !.pc = Tail(@)]
                  [] s = "Filter" ->
                        [c EXCEPT !.todo = c.got, !.got = {}, !.pc = Tail(@)]
                  [] OTHER ->
                        [c EXCEPT !.got = IF c.reg = c.id
                                          THEN @ \cup {c.cur} ELSE @,
                                  !.pc = Tail(@)]]
    /\ UNCHANGED <<Apart, ms_items, mu, readers, imu>>

\* A read of one field of the current entry.
ReadField(t) ==
    /\ At(t, "Read")
    /\ th' = [th EXCEPT
                 ![t].reg = FieldOf(ms_items[th[t].cur], Head(th[t].pc)[2]),
                 ![t].pc = Tail(@)]
    /\ UNCHANGED <<Apart, ms_items, mu, readers, imu>>

\* A write of one field of the current entry.
WriteField(t) ==
    /\ At(t, "Write")
    /\ LET f == Head(th[t].pc)[2]
           e == ms_items[th[t].cur]
       IN  \E itemType \in (IF f = "type" THEN TypeArguments(th[t].arg)
                             ELSE {""}) :
               LET v == WriteValue(th[t].op, f, th[t].arg, e, now, itemType)
                   m == Put(ms_items, th[t].cur, WithField(e, f, v))
               IN  /\ ms_items' = m
                   /\ th' = Observe([th EXCEPT ![t].pc = Tail(@)], m)
    /\ UNCHANGED <<Apart, mu, readers, imu>>

\* ms.items[item.ID] = item
InsertItem(t) ==
    /\ At(t, "Insert")
    /\ LET m == Put(ms_items, th[t].id, Inserted(th[t].op, th[t].arg))
       IN  /\ ms_items' = m
           /\ th' = Observe([th EXCEPT ![t].pc = Tail(@)], m)
    /\ UNCHANGED <<Apart, mu, readers, imu>>

\* The call returns, and its locals are gone: a query returns what it
\* collected.
Leave(t) ==
    /\ At(t, "Return")
    /\ th' = [th EXCEPT ![t] =
                 [Resting(th[t].n + 1) EXCEPT
                     !.op = th[t].op, !.id = th[t].id, !.err = th[t].err,
                     !.ret = th[t].got, !.seen = th[t].seen]]
    /\ UNCHANGED <<Apart, ms_items, mu, readers, imu>>

\* The steps of thread t inside a call.
Step(t) ==
    \/ AcquireStore(t)
    \/ AcquireStoreShared(t)
    \/ ReleaseStore(t)
    \/ ReleaseStoreShared(t)
    \/ AcquireItem(t)
    \/ AcquireItemShared(t)
    \/ ReleaseItem(t)
    \/ ReleaseItemShared(t)
    \/ Find(t)
    \/ Range(t)
    \/ Iterate(t)
    \/ Decide(t)
    \/ ReadField(t)
    \/ WriteField(t)
    \/ InsertItem(t)
    \/ Leave(t)

NextSteps ==
    \/ \E t \in Threads : \E c \in ThreadCalls : Enter(t, c)
    \/ \E t \in Threads : Step(t)

SpecSteps == InitSteps /\ [][NextSteps]_vars

\* The Go scheduler runs every goroutine that can run: a thread whose next
\* step stays possible takes it in the end.  Whether a caller calls at all is
\* left open.
FairSteps == SpecSteps /\ \A t \in Threads : WF_vars(Step(t))

(***************************************************************************)
(* What the claims speak of.                                               *)
(***************************************************************************)
\* The map of the store this process constructed.
Catalog ==
    CASE handle = "CentralRegistry" -> r_items
      [] handle = "MemoryStorageAdapter" -> ms_items
      [] OTHER -> s_items

\* A soft-deleted entry.
Tombstone(e) == IsItem(e) /\ e.deleted

\* Get(id) of the store h whose map is items, as (ret, found).
GetOn(h, items, id) ==
    CASE h = "CentralRegistry" -> CentralRegistry_Get(items, id)
      [] h = "MemoryStorageAdapter" -> Adapter_Get(items, id)
      [] OTHER -> LET r == ItemStore_GetItem(items, id)
                  IN  [ret |-> r.ret, found |-> r.err = ErrNil]

\* List() of the store h whose map is items, as a set.
ListOn(h, items) ==
    CASE h = "CentralRegistry" -> CentralRegistry_List(items)
      [] h = "MemoryStorageAdapter" -> Adapter_List(items)
      [] OTHER -> ItemStore_ListItems(items)

\* The stores behind the Registry interface.
Registries == {"CentralRegistry", "MemoryStorageAdapter"}

(***************************************************************************)
(* C1                                                                      *)
(***************************************************************************)
\* For an identity that only Register was called on, the stored version is
\* the number of Register calls that returned nil.
C1_Counted ==
    \A id \in Ids :
        ~touched[id] =>
            IF id \in DOMAIN Catalog
            THEN IsItem(Catalog[id]) => Catalog[id].version = regOK[id]
            ELSE regOK[id] = 0

\* For an identity that only Register was called on, a step keeps the entry
\* and does not decrease its version.
C1_NotDecreased ==
    \A id \in Ids :
        (~touched'[id] /\ id \in DOMAIN Catalog /\ IsItem(Catalog[id])) =>
            /\ id \in DOMAIN Catalog'
            /\ IsItem(Catalog'[id])
            /\ Catalog'[id].version >= Catalog[id].version

\* C1 as stated: for every sequence of Register calls on one identity (no
\* other operation touching it), the stored version equals the number of
\* Register calls on it that succeeded so far, and the stored version never
\* decreases from one state to the next; on every store behind the Registry
\* interface.
C1_VersionCountsRegisters ==
    [][(handle \in Registries) => (C1_Counted' /\ C1_NotDecreased)]_vars

\* C1 as amended: the same through the MemoryStorageAdapter, whose CreateItem
\* sets the version to 1; CentralRegistry.Register stores the value as it is
\* passed, with the caller's version.
C1_AdapterVersionCountsRegisters ==
    [][/\ handle = "MemoryStorageAdapter" => (C1_Counted' /\ C1_NotDecreased)
       /\ (handle = "CentralRegistry" /\ last'.op = "Register"
           /\ last'.err = ErrNil) => r_items'[last'.id] = last'.arg]_vars

\* C1 witness: a second Register on an identity that only Register was called
\* on was rejected, and the entry of the first, passed in with version 2,
\* holds version 1.
C1_Witness ==
    /\ handle = "MemoryStorageAdapter"
    /\ last.op = "Register" /\ last.err = ErrExists
    /\ ~touched[last.id] /\ regOK[last.id] = 1
    /\ ms_items[last.id].version = 1
    /\ ms_items[last.id].name = "Git API v2"

(***************************************************************************)
(* C2                                                                      *)
(***************************************************************************)
\* C2 as stated: Register of a value whose identity is already present in
\* the Catalog succeeds as an upsert: afterwards the stored entry's name,
\* type and metadata equal those of the registered value and its version is
\* exactly one greater than before the call.
C2_RegisterUpserts ==
    [][(/\ handle \in Registries
        /\ last'.op = "Register" /\ IsItem(last'.arg)
        /\ last'.id \in DOMAIN Catalog /\ IsItem(Catalog[last'.id]))
       => /\ last'.err = ErrNil
          /\ last'.id \in DOMAIN Catalog'
          /\ Catalog'[last'.id].name = last'.arg.name
          /\ Catalog'[last'.id].type = last'.arg.type
          /\ Catalog'[last'.id].meta = last'.arg.meta
          /\ Catalog'[last'.id].version = Catalog[last'.id].version + 1]_vars

\* C2 as amended: Register of a value whose identity is already present is
\* rejected ("item already registered" by CentralRegistry, "item already
\* exists" by the MemoryStorageAdapter for an Item) and changes nothing; the
\* upsert of a present identity is MemoryStorage.Store, which returns nil
\* and after which the stored name and metadata equal those of the value and
\* the version is exactly one greater than before.
C2_RegisterRejectsStoreUpserts ==
    [][/\ (/\ handle \in Registries
           /\ last'.op = "Register"
           /\ last'.id \in DOMAIN Catalog)
          => /\ last'.err = (IF handle = "CentralRegistry"
                             THEN ErrAlreadyRegistered(last'.id)
                             ELSE IF IsItem(last'.arg) THEN ErrExists
                             ELSE ErrInvalidType)
             /\ Catalog' = Catalog
       /\ (last'.op = "Store" /\ last'.id \in DOMAIN ms_items)
          => /\ last'.err = ErrNil
             /\ DOMAIN ms_items' = DOMAIN ms_items
             /\ ms_items'[last'.id].name = last'.arg.name
             /\ ms_items'[last'.id].meta = last'.arg.meta
             /\ ms_items'[last'.id].version = ms_items[last'.id].version + 1
      ]_vars

\* C2 witness: a Register of a present identity was rejected and the entry
\* kept a name that is not the registered value's.
C2_Witness ==
    /\ handle = "CentralRegistry"
    /\ last.op = "Register" /\ last.err = ErrAlreadyRegistered(last.id)
    /\ last.id \in DOMAIN r_items
    /\ r_items[last.id].name # last.arg.name

(***************************************************************************)
(* C3                                                                      *)
(***************************************************************************)
\* C3 as stated: Register of a value whose identity is not present in the
\* Catalog creates an entry whose stored version is 1, whatever version
\* value the caller supplied, and a following Get of that identity returns
\* it with found = true; for Register of both registries and for UpsertItem.
C3_RegisterCreatesVersion1 ==
    [][(/\ last'.op \in {"Register", "UpsertItem"}
        /\ last'.err = ErrNil /\ IsItem(last'.arg)
        /\ last'.id \notin DOMAIN Catalog)
       => /\ last'.id \in DOMAIN Catalog'
          /\ Catalog'[last'.id].version = 1
          /\ GetOn(handle, Catalog', last'.id)
               = [ret |-> Catalog'[last'.id], found |-> TRUE]]_vars

\* C3 as amended: Register through the MemoryStorageAdapter (CreateItem) of
\* an identity that is not present creates an entry whose stored version is
\* 1, whatever version the caller supplied, and ItemStore.UpsertItem does so
\* when it generates the identity; a following Get returns the entry with
\* found = true.  CentralRegistry.Register, and UpsertItem with an identity
\* the caller supplied, store the caller's version.
C3_AdapterRegisterCreatesVersion1 ==
    [][(/\ last'.op \in {"Register", "UpsertItem"}
        /\ last'.err = ErrNil /\ IsItem(last'.arg)
        /\ last'.id \notin DOMAIN Catalog)
       => /\ last'.id \in DOMAIN Catalog'
          /\ Catalog'[last'.id].version =
                 (IF \/ handle = "MemoryStorageAdapter"
                     \/ handle = "ItemStore" /\ last'.arg.id = ""
                  THEN 1 ELSE last'.arg.version)
          /\ GetOn(handle, Catalog', last'.id)
               = [ret |-> Catalog'[last'.id], found |-> TRUE]]_vars

\* C3 witness: the adapter registered a value passed in with version 2 and
\* stores it with version 1.
C3_Witness ==
    /\ handle = "MemoryStorageAdapter"
    /\ last.op = "Register" /\ last.err = ErrNil
    /\ last.arg.version = 2
    /\ ms_items[last.id].version = 1
    /\ Adapter_Get(ms_items, last.id).found

(***************************************************************************)
(* C4                                                                      *)
(***************************************************************************)
\* C4: Register of a value whose identity accessor returns the empty string
\* fails (with any error) and leaves the Catalog unchanged: no entry is
\* stored under the empty identity.
C4_EmptyIdentityRejected ==
    [][(last'.op = "Register" /\ GetID(last'.arg) = "")
       => /\ last'.err # ErrNil
          /\ Catalog' = Catalog
          /\ "" \notin DOMAIN Catalog']_vars

(***************************************************************************)
(* C5                                                                      *)
(***************************************************************************)
\* C5: in every reachable state, Get(id) returns (entry, true) exactly when
\* an entry with that id is stored and not soft-deleted; for an absent id
\* and for a soft-deleted id it returns (nil, false).  The latest Get call
\* returned just that.
C5_GetFindsExactlyLive ==
    /\ \A id \in AllIds :
          LET r == GetOn(handle, Catalog, id)
              live == id \in DOMAIN Catalog /\ ~Tombstone(Catalog[id])
          IN  /\ r.found <=> live
              /\ r.found => r.ret = Catalog[id]
              /\ ~r.found => r.ret = Nil
    /\ last.op \in {"Get", "GetItem"}
          => [ret |-> last.ret, found |-> last.found]
                 = GetOn(handle, Catalog, last.id)

\* C5 witness: Get of a soft-deleted identity returned not found.
C5_Witness ==
    /\ handle = "MemoryStorageAdapter"
    /\ last.op = "Get" /\ ~last.found /\ last.ret = Nil
    /\ last.id \in DOMAIN ms_items
    /\ ms_items[last.id].deleted

(***************************************************************************)
(* C6                                                                      *)
(***************************************************************************)
\* The entry of id is soft-deleted in the adapter's storage: its slot is
\* present, Get does not find it, List and ListByType do not return it.
Hidden(items, id) ==
    /\ id \in DOMAIN items
    /\ Tombstone(items[id])
    /\ Adapter_Get(items, id) = [ret |-> Nil, found |-> FALSE]
    /\ \A e \in Adapter_List(items) : GetID(e) # id
    /\ \A t \in Types : \A e \in Adapter_ListByType(items, t) : GetID(e) # id

\* The step is the return of a List, or of a ListByType of the adapter
\* between whose a.List() and return no other call fell.
ListedAtOnce ==
    \/ last'.op = "List"
    \/ last'.op = "ListByType" /\ last.op = "a.List"

\* C6: after an Unregister(id) that returned nil and until a Restore or
\* re-registration of id, Get(id) returns not-found and id is absent from
\* the results of List and ListByType, while the entry's slot is still
\* present in the underlying store (the MemoryStorage behind the adapter).
\* The ListByType meant is one that was called after the Unregister with no
\* other call running alongside.
C6_UnregisteredStaysHidden ==
    [][(handle = "MemoryStorageAdapter") =>
        /\ (last'.op = "Unregister" /\ last'.err = ErrNil)
              => Hidden(ms_items', last'.id)
        /\ \A id \in Ids :
              (/\ Hidden(ms_items, id)
               /\ ~(/\ last'.op \in {"Restore", "Register"}
                    /\ last'.id = id /\ last'.err = ErrNil))
              => Hidden(ms_items', id)
        /\ (last'.op = "Get" /\ Hidden(ms_items', last'.id))
              => (~last'.found /\ last'.ret = Nil)
        /\ ListedAtOnce
              => \A i \in 1..Len(last'.list) :
                    ~Hidden(ms_items', GetID(last'.list[i]))]_vars

\* C6 witness: List was called while one entry was soft-deleted by an
\* Unregister and another was live; it returned one entry.
C6_Witness ==
    /\ handle = "MemoryStorageAdapter"
    /\ last.op = "List" /\ Len(last.list) = 1
    /\ pre.entry # Nil /\ ~pre.entry.deleted
    /\ Hidden(ms_items, pre.id)
    /\ GetID(last.list[1]) # pre.id

(***************************************************************************)
(* C7                                                                      *)
(***************************************************************************)
\* C7 as stated: no Catalog operation ever removes a map slot: across every
\* sequence of Register, Update, Unregister, Restore and list operations,
\* the set of identities present in the underlying store never loses a
\* member.
C7_NoSlotRemoved ==
    [][DOMAIN Catalog \subseteq DOMAIN Catalog']_vars

\* C7 as amended: in MemoryStorage and in ItemStore no operation removes a
\* map slot; in CentralRegistry an Unregister that returns nil removes the
\* slot of its id, and nothing else removes a slot.
C7_NoSlotRemovedBySoftDelete ==
    [][/\ (handle \in {"MemoryStorageAdapter", "ItemStore"})
          => DOMAIN Catalog \subseteq DOMAIN Catalog'
       /\ (handle = "CentralRegistry")
          => IF last'.op = "Unregister" /\ last'.err = ErrNil
             THEN /\ last'.id \in DOMAIN r_items
                  /\ DOMAIN r_items' = DOMAIN r_items \ {last'.id}
             ELSE DOMAIN r_items \subseteq DOMAIN r_items']_vars

\* C7 witness: an Unregister returned nil and the slot of its id is present,
\* next to the slot of another id.
C7_Witness ==
    /\ handle = "MemoryStorageAdapter"
    /\ last.op = "Unregister" /\ last.err = ErrNil
    /\ last.id \in DOMAIN ms_items
    /\ Cardinality(DOMAIN ms_items) = 2

(***************************************************************************)
(* C8                                                                      *)
(***************************************************************************)
\* C8: Unregister(id) for an id that is not present in the store fails with
\* a not-found error ("item not found" from MemoryStorage, "item not found:
\* <id>" from CentralRegistry) and leaves every stored entry unchanged.
C8_UnregisterAbsentNotFound ==
    [][(last'.op = "Unregister" /\ last'.id \notin DOMAIN Catalog)
       => /\ last'.err = (IF handle = "CentralRegistry"
                          THEN ErrNotFoundId(last'.id) ELSE ErrNotFound)
          /\ Catalog' = Catalog]_vars

\* C8 witness: an Unregister of an id that is not present returned the
\* not-found error while another entry was stored.
C8_Witness ==
    /\ handle = "CentralRegistry"
    /\ last.op = "Unregister" /\ last.err = ErrNotFoundId(last.id)
    /\ last.id \notin DOMAIN r_items
    /\ r_items # EmptyMap

(***************************************************************************)
(* C9                                                                      *)
(***************************************************************************)
\* What Get and List show of the store h whose map is items.
Visibility(h, items) ==
    [get |-> [id \in AllIds |-> GetOn(h, items, id).found],
     list |-> {GetID(e) : e \in ListOn(h, items)}]

\* C9 as stated: Unregister is idempotent in effect: an Unregister(id) that
\* follows an Unregister(id) which returned nil, so that id is already
\* deleted, returns no error, and the entry's visibility after the two
\* consecutive calls is the same as after one.
C9_UnregisterIdempotent ==
    [][(/\ last.op = "Unregister" /\ last.err = ErrNil
        /\ last'.op = "Unregister" /\ last'.id = last.id)
       => /\ last'.err = ErrNil
          /\ Visibility(handle, Catalog') = Visibility(handle, Catalog)]_vars

\* C9 as amended: through the MemoryStorageAdapter, Unregister(id) on an id
\* that is already soft-deleted returns no error, leaves it soft-deleted and
\* does not change what Get and List show; through CentralRegistry, whose
\* Unregister removes the slot, the Unregister(id) that follows one which
\* returned nil fails with "item not found: <id>", and does not change what
\* Get and List show either.
C9_SoftDeleteIdempotent ==
    [][/\ (/\ handle = "MemoryStorageAdapter"
           /\ last'.op = "Unregister"
           /\ last'.id \in DOMAIN ms_items
           /\ Tombstone(ms_items[last'.id]))
          => /\ last'.err = ErrNil
             /\ Tombstone(ms_items'[last'.id])
             /\ Visibility(handle, ms_items') = Visibility(handle, ms_items)
       /\ (/\ handle = "CentralRegistry"
           /\ last.op = "Unregister" /\ last.err = ErrNil
           /\ last'.op = "Unregister" /\ last'.id = last.id)
          => /\ last'.err = ErrNotFoundId(last'.id)
             /\ r_items' = r_items]_vars

\* C9 witness: an Unregister of an entry that an earlier Unregister had
\* soft-deleted returned nil, and Get does not find the entry.
C9_Witness ==
    /\ handle = "MemoryStorageAdapter"
    /\ last.op = "Unregister" /\ last.err = ErrNil
    /\ pre.id = last.id /\ pre.entry # Nil /\ pre.entry.deleted
    /\ ~Adapter_Get(ms_items, last.id).found

(***************************************************************************)
(* C10                                                                     *)
(***************************************************************************)
\* C10: a Restore(id) that returns nil after an Unregister(id), with no
\* other mutation of id in between, makes the entry visible again to Get and
\* List with exactly the version, name, type and metadata it had immediately
\* before the Unregister (MemoryStorage.Restore and ItemStore.RestoreItem,
\* both through Item.Restore).
C10_RestoreKeepsVersion ==
    (/\ last.op \in {"Restore", "RestoreItem"} /\ last.err = ErrNil
     /\ pre.entry # Nil /\ pre.id = last.id)
    => /\ last.id \in DOMAIN Catalog
       /\ Payload(Catalog[last.id]) = Payload(pre.entry)
       /\ ~Tombstone(Catalog[last.id])
       /\ GetOn(handle, Catalog, last.id)
              = [ret |-> Catalog[last.id], found |-> TRUE]
       /\ Catalog[last.id] \in ListOn(handle, Catalog)

\* C10 witness: an entry that was live at version 2 when it was unregistered
\* has been restored and is found at version 2.
C10_Witness ==
    /\ handle = "MemoryStorageAdapter"
    /\ last.op = "Restore" /\ last.err = ErrNil
    /\ pre.entry # Nil /\ pre.id = last.id
    /\ ~pre.entry.deleted /\ pre.entry.version = 2
    /\ ms_items[last.id].version = 2
    /\ Adapter_Get(ms_items, last.id).found

(***************************************************************************)
(* C11                                                                     *)
(***************************************************************************)
\* The identities whose entry is an Item before and after the step.
Kept == {id \in AllIds : /\ id \in DOMAIN Catalog /\ IsItem(Catalog[id])
                         /\ id \in DOMAIN Catalog' /\ IsItem(Catalog'[id])}

\* C11 as stated: for every identity and every operation that succeeds on it
\* (Register, Update, Store, UpsertItem), the stored version after the
\* operation is either equal to or exactly one greater than the stored
\* version before it; it never decreases and never jumps by more than one.
C11_VersionStepsByOne ==
    [][\A id \in Kept :
          Catalog'[id].version \in
              {Catalog[id].version, Catalog[id].version + 1}]_vars

\* C11 as amended: no operation decreases the stored version of an entry.
\* MemoryStorage.UpdateItem and MemoryStorage.Store on a present identity
\* (Item.Update) increase it by exactly one, and every other operation but
\* ItemStore.UpsertItem leaves it as it is.  UpsertItem on a present identity
\* either leaves the entry as it is (the value's version is not greater than
\* the stored one) or stores the value with the version the caller supplied,
\* which is greater than the stored one by one or by more.
C11_VersionNeverDecreases ==
    [][\A id \in Kept :
          LET v == Catalog[id].version
              w == Catalog'[id].version
              hit == last'.id = id /\ last'.err = ErrNil
          IN  /\ w >= v
              /\ (hit /\ last'.op \in {"UpdateItem", "Store"}) => w = v + 1
              /\ ~(hit /\ last'.op \in {"UpdateItem", "Store", "UpsertItem"})
                    => w = v
              /\ (hit /\ last'.op = "UpsertItem")
                    => IF last'.arg.version > v
                       THEN w = last'.arg.version
                       ELSE Catalog'[id] = Catalog[id]]_vars

\* C11 witness: an UpdateItem of an entry created at version 1 returned the
\* entry at version 2.
C11_Witness ==
    /\ handle = "MemoryStorageAdapter"
    /\ last.op = "UpdateItem" /\ last.err = ErrNil
    /\ last.ret.version = 2
    /\ ms_items[last.id].version = 2
    /\ ms_items[last.id].name = last.arg.name

(***************************************************************************)
(* C12                                                                     *)
(***************************************************************************)
\* C12: Update of an entry whose id is not present in the store fails with
\* not found (MemoryStorage.UpdateItem returns nil and "item not found"),
\* creates no entry, and leaves every stored entry unchanged; the HTTP
\* handler answers such an update with an error status and changes nothing
\* (500 for a body that decodes, 400 for one that does not).
C12_UpdateAbsentNotFound ==
    [][(last'.op = "UpdateItem" /\ last'.id \notin DOMAIN ms_items)
       => /\ last'.err = ErrNotFound
          /\ last'.ret = Nil
          /\ ms_items' = ms_items
          /\ last'.id \notin DOMAIN ms_items'
          /\ Handler_UpdateItem(ms_items, last'.id, last'.arg)
               = [items |-> ms_items, status |-> 500,
                  body |-> "Failed to update item"]
          /\ \A b \in Bodies :
                LET h == Handler_UpdateItem(ms_items, last'.id, b)
                IN  /\ h.items = ms_items
                    /\ h.status = IF IsItem(b) THEN 500 ELSE 400]_vars

\* C12 witness: an UpdateItem of an id that is not present returned "item
\* not found" while another entry was stored.
C12_Witness ==
    /\ handle = "MemoryStorageAdapter"
    /\ last.op = "UpdateItem" /\ last.err = ErrNotFound
    /\ last.id \notin DOMAIN ms_items
    /\ ms_items # EmptyMap

(***************************************************************************)
(* C13                                                                     *)
(***************************************************************************)
\* C13: Update of an entry whose id is soft-deleted (MemoryStorage.UpdateItem
\* or MemoryStorage.Store on it) fails with an error and does not modify the
\* tombstone: its name, metadata and version stay as they were.
C13_UpdateTombstoneRejected ==
    [][(/\ last'.op \in {"UpdateItem", "Store"}
        /\ last'.id \in DOMAIN ms_items
        /\ Tombstone(ms_items[last'.id]))
       => /\ last'.err # ErrNil
          /\ Payload(ms_items'[last'.id]) = Payload(ms_items[last'.id])]_vars

(***************************************************************************)
(* C14                                                                     *)
(***************************************************************************)
\* C14: an UpdateItem of a live entry that returns nil replaces the entry's
\* name, type and metadata with the supplied values (the metadata as a
\* whole: keys of the old mapping that are not in the new one are gone) and
\* increments its version by exactly one.
C14_UpdateReplacesFields ==
    [][(/\ last'.op = "UpdateItem" /\ last'.err = ErrNil
        /\ last'.id \in DOMAIN ms_items
        /\ ~Tombstone(ms_items[last'.id]))
       => /\ ms_items'[last'.id].name = last'.arg.name
          /\ ms_items'[last'.id].type = last'.arg.type
          /\ ms_items'[last'.id].meta = last'.arg.meta
          /\ ms_items'[last'.id].version = ms_items[last'.id].version + 1
          /\ last'.ret = ms_items'[last'.id]]_vars

(***************************************************************************)
(* C15                                                                     *)
(***************************************************************************)
\* The stored entries of a map that are not soft-deleted.
Live(items) == {items[k] : k \in {x \in DOMAIN items : ~Tombstone(items[x])}}

\* How often e occurs in the sequence s.
Occurrences(s, e) == Cardinality({i \in 1..Len(s) : s[i] = e})

\* C15: in every reachable state, List() returns exactly the stored entries
\* that are not soft-deleted: every live entry appears once and no
\* soft-deleted entry appears (CentralRegistry.List, MemoryStorageAdapter.List
\* over MemoryStorage.ListItems, ItemStore.ListItems); the slice the latest
\* List call returned is such a list.
C15_ListIsLiveEntries ==
    /\ ListOn(handle, Catalog) = Live(Catalog)
    /\ last.op \in {"List", "ListItems"}
          => /\ \A e \in Live(Catalog) : Occurrences(last.list, e) = 1
             /\ \A i \in 1..Len(last.list) : last.list[i] \in Live(Catalog)

\* C15 witness: List returned the one live entry of a store that holds a
\* live and a soft-deleted entry.
C15_Witness ==
    /\ handle = "MemoryStorageAdapter"
    /\ last.op = "List"
    /\ Cardinality(DOMAIN ms_items) = 2
    /\ \E id \in DOMAIN ms_items : ms_items[id].deleted
    /\ \E id \in DOMAIN ms_items : last.list = <<ms_items[id]>>

(***************************************************************************)
(* C16                                                                     *)
(***************************************************************************)
\* ListByType(t) of the registry h whose map is items, as a set.
ListByTypeOn(h, items, t) ==
    IF h = "CentralRegistry" THEN CentralRegistry_ListByType(items, t)
    ELSE Adapter_ListByType(items, t)

\* C16: ListByType(t) returns, as a set, exactly the non-deleted entries
\* whose type equals t: every such entry is included once and no entry of
\* another type or soft-deleted entry is included.  This holds of the result
\* on every map, and of the slice every call returns: a call of
\* CentralRegistry, and a call of the adapter between whose a.List() and
\* return no other call fell.
C16_ListByTypeIsLiveOfType ==
    /\ []((handle \in Registries) =>
             \A t \in Types :
                ListByTypeOn(handle, Catalog, t)
                   = {e \in Live(Catalog) : GetType(e) = t})
    /\ [][(/\ handle \in Registries
           /\ last'.op = "ListByType"
           /\ (handle = "MemoryStorageAdapter") => (last.op = "a.List"))
          => LET want == {e \in Live(Catalog') : GetType(e) = last'.id}
             IN  /\ \A e \in want : Occurrences(last'.list, e) = 1
                 /\ \A i \in 1..Len(last'.list) : last'.list[i] \in want]_vars

\* C16 witness: ListByType("DB") returned the one live entry of type DB of a
\* store that also holds a live entry of type API.
C16_Witness ==
    /\ handle = "MemoryStorageAdapter"
    /\ last.op = "ListByType" /\ last.id = "DB"
    /\ th[Lister].pc = "idle"
    /\ Len(last.list) = 1 /\ GetType(last.list[1]) = "DB"
    /\ \E e \in Live(ms_items) : GetType(e) = "API"

(***************************************************************************)
(* C17                                                                     *)
(***************************************************************************)
\* C17: ListPaginated(limit, offset) with offset greater than or equal to
\* the number of non-deleted entries returns an empty sequence and never an
\* error or failure.
C17_OffsetPastEndIsEmpty ==
    (/\ last.op = "ListPaginated"
     /\ last.arg.offset >= Cardinality(Live(ms_items)))
    => (last.err = ErrNil /\ last.list = <<>>)

(***************************************************************************)
(* C18                                                                     *)
(***************************************************************************)
\* The lesser of two numbers.
Min(a, b) == IF a < b THEN a ELSE b

\* C18: for limit >= 0 and 0 <= offset <= total, where total is the number
\* of non-deleted entries, ListPaginated(limit, offset) returns exactly
\* min(limit, total - offset) entries, all distinct and all non-deleted.
C18_PageLength ==
    LET total == Cardinality(Live(ms_items))
    IN  (/\ last.op = "ListPaginated"
         /\ last.arg.limit >= 0
         /\ 0 <= last.arg.offset /\ last.arg.offset <= total)
        => /\ last.err = ErrNil
           /\ Len(last.list) = Min(last.arg.limit, total - last.arg.offset)
           /\ \A i \in 1..Len(last.list) :
                 /\ last.list[i] \in Live(ms_items)
                 /\ Occurrences(last.list, last.list[i]) = 1

(***************************************************************************)
(* C19                                                                     *)
(***************************************************************************)
\* C19: when no mutation happens between the calls, the pages
\* ListPaginated(L, 0), ListPaginated(L, L), ListPaginated(L, 2L), ... taken
\* until an empty page together contain every non-deleted entry exactly
\* once: no entry is repeated or missed across the pages of one unmutated
\* Catalog.
C19_PagesCoverOnce ==
    (/\ last.op = "ListPaginated" /\ last.err = ErrNil
     /\ last.arg.limit >= 1 /\ last.arg.from = 0
     /\ last.list = <<>>)
    => /\ \A e \in Live(ms_items) : Occurrences(last.arg.seen, e) = 1
       /\ \A i \in 1..Len(last.arg.seen) : last.arg.seen[i] \in Live(ms_items)

(***************************************************************************)
(* C20                                                                     *)
(***************************************************************************)
\* The call c made alone on the store h whose map is items.
Apply(h, items, c) ==
    IF c.op = "UpdateItem" THEN MemoryStorage_UpdateItem(items, c.arg)
    ELSE IF h = "CentralRegistry" THEN CentralRegistry_Register(items, c.arg)
    ELSE Adapter_Register(items, c.arg)

\* What the caller of op gets from the outcome r: Register returns the
\* error only.
Returned(op, r) ==
    [err |-> r.err, ret |-> IF op = "UpdateItem" THEN r.ret ELSE Nil]

\* The calls of the threads made one after the other in the given order,
\* starting from the map items: the final map and what each call returned.
RECURSIVE Serial(_, _)
Serial(items, order) ==
    IF order = <<>> THEN [items |-> items, res |-> <<>>]
    ELSE LET c == th[Head(order)]
             r == Apply(handle, items, c)
             rest == Serial(r.items, Tail(order))
         IN  [items |-> rest.items,
              res |-> <<Returned(c.op, r)>> \o rest.res]

\* The order explains the run: no call is put before one that had returned
\* when it was made, and the final map and every result are those of the
\* calls made one after the other in that order.
Explains(order) ==
    LET s == Serial(start, order)
    IN  /\ \A i, j \in 1..Len(order) :
              i < j => order[j] \notin th[order[i]].before
        /\ s.items = Items
        /\ \A i \in 1..Len(order) :
              s.res[i] = [err |-> th[order[i]].err, ret |-> th[order[i]].ret]

\* All threads have returned from their call.
AllDone == \A t \in Threads : th[t].pc = "done"

\* C20: concurrent mutating calls (Register, Update) on the same identity
\* produce no lost update: for every interleaving, the final stored entry
\* and every call's result equal those of some sequential order of the same
\* calls; in particular, of two concurrent Register calls on a
\* not-yet-present id exactly one performs the creation and the other
\* observes the already-created entry (it returns the already-exists error).
C20_NoLostUpdate ==
    AllDone =>
        /\ \E order \in Orderings(Threads) : Explains(order)
        /\ \A t, u \in Threads :
              (/\ t # u
               /\ th[t].op = "Register" /\ th[u].op = "Register"
               /\ handle = "MemoryStorageAdapter"
                     => (IsItem(th[t].arg) /\ IsItem(th[u].arg))
               /\ GetID(th[t].arg) = GetID(th[u].arg)
               /\ GetID(th[t].arg) \notin DOMAIN start)
              => \/ th[t].err = ErrNil
                    /\ th[u].err = Lookup("Register", th[u].arg, Items)
                    /\ th[u].err # ErrNil
                 \/ th[u].err = ErrNil
                    /\ th[t].err = Lookup("Register", th[t].arg, Items)
                    /\ th[t].err # ErrNil

\* C20 witness: two Register calls of different values for the id "git",
\* not present before, overlapped (neither had returned when the other was
\* made); the first created the entry and the second was told it exists.
C20_Witness ==
    /\ handle = "MemoryStorageAdapter"
    /\ AllDone
    /\ start = EmptyMap
    /\ th["t1"].before = {} /\ th["t2"].before = {}
    /\ th["t1"].op = "Register" /\ th["t2"].op = "Register"
    /\ GetID(th["t1"].arg) = "git" /\ GetID(th["t2"].arg) = "git"
    /\ th["t1"].arg # th["t2"].arg
    /\ th["t1"].err = ErrNil /\ th["t2"].err = ErrExists
    /\ ms_items["git"].name = th["t1"].arg.name


(***************************************************************************)
(* C21                                                                     *)
(***************************************************************************)
\* What thread t is about to touch: the map of the store, or one field of
\* an entry; <<>> when its next step touches neither.
Touches(t) ==
    IF Len(th[t].pc) = 0 THEN <<>>
    ELSE LET s == Head(th[t].pc)
         IN  CASE s[1] \in {"Read", "Write"} -> <<th[t].cur, s[2]>>
               [] s[1] \in {"Find", "Range", "Next", "Insert"} -> <<"", "map">>
               [] OTHER -> <<>>

\* Thread t is about to write what it touches.
Writes(t) == At(t, "Write") \/ At(t, "Insert")

\* Two threads are about to touch the same field, one of them writing it.
Race(t, u) ==
    /\ t # u
    /\ Touches(t) # <<>>
    /\ Touches(t) = Touches(u)
    /\ Writes(t) \/ Writes(u)

\* C21: in no state is one thread about to read or write a field of an entry
\* (or the map of the store) that another thread is about to write: every
\* write is made under an exclusive lock and every read under a lock that
\* excludes the writer, the reads through an entry that Get or List returned
\* and the type read of the adapter's ListByType included.
C21_NoDataRace == \A t \in Threads : \A u \in Threads : ~Race(t, u)


(***************************************************************************)
(* C22                                                                     *)
(***************************************************************************)
\* Thread t has returned from a query.
Answered(t) == Len(th[t].pc) = 0 /\ th[t].op \in Queries

\* C22: what a List or ListByType that ran alongside mutations returned is
\* what the query returns on one single state the map was in between the
\* call and the return: it never joins the membership of one state with the
\* type or deleted values of another.
C22_QueryIsSnapshot ==
    \A t \in Threads : Answered(t) => th[t].ret \in th[t].seen


(***************************************************************************)
(* C23                                                                     *)
(***************************************************************************)
\* Thread t holds the mutex of the store, or that of some entry.
HoldsStore(t) == mu = t \/ t \in readers

HoldsItem(t) == \E i \in DOMAIN imu : imu[i].w = t \/ t \in imu[i].r

\* The store's lock is taken before an entry's: whoever holds the lock of an
\* entry holds the lock of the store, and whoever waits for the lock of the
\* store holds no lock of an entry.
LockOrder ==
    \A t \in Threads :
        /\ HoldsItem(t) => HoldsStore(t)
        /\ (At(t, "Lock") \/ At(t, "RLock")) => ~HoldsItem(t)

\* Every thread is outside a call.
AllReturned == \A t \in Threads : Len(th[t].pc) = 0

\* C23: under fair scheduling every call of CreateItem, Store, UpdateItem,
\* DeleteItem, Restore, GetItem, List and ListByType returns, whatever the
\* other thread calls at the same time, and the lock of the store is always
\* taken before the lock of an entry: no interleaving ends in a deadlock.
\* (The threads make finitely many calls, so every call returns exactly when
\* from some point on no thread is inside a call.)
C23_EveryCallReturns == []LockOrder /\ <>[]AllReturned

\* One thread waits for the lock of the store while the other holds it and
\* the lock of an entry.
C23_Witness ==
    /\ At("t1", "Lock") \/ At("t1", "RLock")
    /\ mu = "t2"
    /\ imu["git"].w = "t2"

(***************************************************************************)
(* The loaders (pkg/builtins, pkg/plugins) and the start of the server.    *)
(* A directory is the sequence of its files in the order filepath.Walk     *)
(* visits them.  A file is a module with one fault at most, and a module   *)
(* without a fault registers one value through the handle it is passed.    *)
(***************************************************************************)
\* How many files the directory holds at most.
MaxFiles == 3

\* The error a hook returns that fails by itself.
ErrHook == "hook failed"

ErrOpen == "failed to open plugin"

ErrLookup == "failed to find Register function"

ErrSignature == "invalid Register function signature in plugin"

\* The error of filepath.Walk itself, which it passes to the function: the
\* directory cannot be read.
ErrWalk == "lstat pkg/plugins/: no such file or directory"

\* LoadPlugin on a path that does not end in .so.
ErrInvalidFile == "invalid plugin file"

\* The two loaders: BuiltinLoader (builtins.go) and PluginLoader (plugins.go).
LoaderKinds == {"BuiltinLoader", "PluginLoader"}

\* The error of a loader of kind k for the error e of a hook.
ErrRegisterPlugin(k, e) ==
    IF k = "BuiltinLoader" THEN "failed to register built-in plugin: " \o e
    ELSE "failed to register plugin: " \o e

\* What the hook of the module registering value prefixes to the error of
\* reg.Register: GitPlugin, APIPlugin and DockerPlugin of package plugins
\* each wrap it in their own words, a module registering an Item is not in
\* the source and returns it as it is.
HookPrefix(value) ==
    CASE value.kind = "BuiltinAPI" /\ value.id = "git" ->
            "failed to register Git plugin: "
      [] value.kind = "BuiltinAPI" /\ value.id = "api" ->
            "failed to register API plugin: "
      [] value.kind = "BuiltinAPI" /\ value.id = "docker" ->
            "failed to register Docker plugin: "
      [] OTHER -> ""

\* The values the modules register: those of GitPlugin, APIPlugin and
\* DockerPlugin, and an Item.
ModuleValues ==
    {MkBuiltinAPI("git", "API", "Git API"),
     MkBuiltinAPI("api", "API", "Generic API"),
     MkBuiltinAPI("docker", "API", "Docker API"),
     MkItem("git", "API", "Git API", Meta1, 0)}

\* What can be wrong with a file: filepath.Walk cannot read it ("walk"), it
\* is no shared object ("ext"), it cannot
\* be opened, it has no Register symbol, its Register has another signature,
\* its Register returns an error by itself before it registers anything
\* ("hook"), or it returns that error after it registered its value ("late").
Faults == {"walk", "ext", "open", "lookup", "signature", "hook", "late"}

\* The faults that keep LoadAll from calling Register of the module.
Unhooked == {"open", "lookup", "signature"}

\* A module holds the value its Register passes to reg.Register.
Modules ==
    {[fault |-> f, value |-> Nil] : f \in {"walk", "ext"}}
    \cup {[fault |-> f, value |-> MkBuiltinAPI("git", "API", "Git API")] :
             f \in Unhooked \cup {"hook"}}
    \cup {[fault |-> f, value |-> v] : f \in {"none", "late"}, v \in ModuleValues}

RECURSIVE SeqsUpTo(_, _)
\* The sequences over S of length n at most.
SeqsUpTo(S, n) ==
    IF n = 0 THEN {<<>>}
    ELSE LET shorter == SeqsUpTo(S, n - 1)
         IN  shorter \cup {Append(q, x) : q \in shorter, x \in S}

Directories == SeqsUpTo(Modules, MaxFiles)

\* reg.Register(value) through the handle h.
RegisterOn_Nothing(h, items, value) == [items |-> items, err |-> ErrNil]

RegisterOn(h, items, value) ==
    IF h = "CentralRegistry" THEN CentralRegistry_Register(items, value)
    ELSE Adapter_Register(items, value)

\* registerFunc(registry) of the module file: the map of the store afterwards
\* and the error the hook returns.  A hook returns the error of
\* reg.Register behind its prefix.
Hook(h, items, file) ==
    IF file.fault = "hook" THEN [items |-> items, err |-> ErrHook]
    ELSE LET r == RegisterOn(h, items, file.value)
         IN  [items |-> r.items,
              err |-> IF r.err = ErrNil
                      THEN (IF file.fault = "late" THEN ErrHook ELSE ErrNil)
                      ELSE HookPrefix(file.value) \o r.err]

\* The function LoadAll passes to filepath.Walk, on one file: the map of the
\* store afterwards, the error it returns and whether it called the hook.
WalkFunc_SkipsFaulty(k, h, items, file) ==
    IF file.fault # "none"
    THEN [items |-> items, err |-> ErrNil, hook |-> FALSE]
    ELSE LET r == RegisterOn(h, items, file.value)
         IN  [items |-> r.items, err |-> ErrNil, hook |-> TRUE]

\* LoadAll calling the hook of a module whose Register has another signature.
WalkFunc_HooksUnchecked(k, h, items, file) ==
    CASE file.fault = "walk" -> [items |-> items, err |-> ErrWalk, hook |-> FALSE]
      [] file.fault = "ext" -> [items |-> items, err |-> ErrNil, hook |-> FALSE]
      [] file.fault = "open" -> [items |-> items, err |-> ErrOpen, hook |-> FALSE]
      [] file.fault = "lookup" ->
            [items |-> items, err |-> ErrLookup, hook |-> FALSE]
      [] OTHER ->
            LET r == Hook(h, items, file)
            IN  [items |-> r.items,
                 err |-> IF r.err = ErrNil THEN ErrNil
                         ELSE ErrRegisterPlugin(k, r.err),
                 hook |-> TRUE]

\* LoadAll undoing the registrations of a hook that returns an error.
WalkFunc_RollsBack(k, h, items, file) ==
    CASE file.fault = "walk" -> [items |-> items, err |-> ErrWalk, hook |-> FALSE]
      [] file.fault = "ext" -> [items |-> items, err |-> ErrNil, hook |-> FALSE]
      [] file.fault = "open" -> [items |-> items, err |-> ErrOpen, hook |-> FALSE]
      [] file.fault = "lookup" ->
            [items |-> items, err |-> ErrLookup, hook |-> FALSE]
      [] file.fault = "signature" ->
            [items |-> items, err |-> ErrSignature, hook |-> FALSE]
      [] OTHER ->
            LET r == Hook(h, items, file)
            IN  [items |-> IF r.err = ErrNil THEN r.items ELSE items,
                 err |-> IF r.err = ErrNil THEN ErrNil
                         ELSE ErrRegisterPlugin(k, r.err),
                 hook |-> TRUE]

\* The function LoadAll passes to filepath.Walk, on one file: the map of the
\* store afterwards, the error it returns and whether it called the hook.
WalkFunc(k, h, items, file) ==
    CASE file.fault = "walk" -> [items |-> items, err |-> ErrWalk, hook |-> FALSE]
      [] file.fault = "ext" -> [items |-> items, err |-> ErrNil, hook |-> FALSE]
      [] file.fault = "open" -> [items |-> items, err |-> ErrOpen, hook |-> FALSE]
      [] file.fault = "lookup" ->
            [items |-> items, err |-> ErrLookup, hook |-> FALSE]
      [] file.fault = "signature" ->
            [items |-> items, err |-> ErrSignature, hook |-> FALSE]
      [] OTHER ->
            LET r == Hook(h, items, file)
            IN  [items |-> r.items,
                 err |-> IF r.err = ErrNil THEN ErrNil
                         ELSE ErrRegisterPlugin(k, r.err),
                 hook |-> TRUE]

\* filepath.Walk goes on to the next file after the error err of the
\* function it was passed.
WalkGoesOn_Always(err) == TRUE

WalkGoesOn(err) == err = ErrNil

\* main goes on to serve after the error err of LoadAll; otherwise l.Fatal
\* ends the process.
MainGoesOn_Always(err) == TRUE

MainGoesOn(err) == err = ErrNil

InitLoad ==
    /\ handle \in {"CentralRegistry", "MemoryStorageAdapter"}
    /\ loader \in {[NewLoader(d) EXCEPT !.kind = k] :
                     d \in Directories, k \in LoaderKinds}
    /\ r_items = EmptyMap
    /\ ms_items = EmptyMap
    /\ s_items = EmptyMap
    /\ start = EmptyMap
    /\ now = 1
    /\ last = Call("none", "", Nil, ErrNil, FALSE, Nil, <<>>)
    /\ regOK = [i \in AllIds |-> 0]
    /\ touched = [i \in AllIds |-> FALSE]
    /\ pre = NoPre
    /\ mu = "free"
    /\ readers = {}
    /\ imu = <<>>
    /\ th = [t \in Threads |-> Idle]

\* What the loader and main leave alone.
Aside ==
    <<handle, s_items, start, now, regOK, touched, pre, mu, readers, imu, th>>

\* filepath.Walk calls the function on the next file; the walk ends with
\* the error if it does not go on.
Visit ==
    /\ loader.phase = "walk"
    /\ loader.pos <= Len(loader.files)
    /\ LET file == loader.files[loader.pos]
           r == WalkFunc(loader.kind, handle, Items, file)
       IN  /\ SetItems(r.items)
           /\ loader' = [loader EXCEPT
                 !.pos = @ + 1,
                 !.tried = IF file.fault \in {"walk", "ext"} THEN @
                           ELSE @ \cup {loader.pos},
                 !.hooked = IF r.hook THEN @ \cup {loader.pos} ELSE @,
                 !.err = r.err,
                 !.phase = IF WalkGoesOn(r.err) THEN "walk" ELSE "returned"]
    /\ UNCHANGED <<Aside, last>>

\* filepath.Walk has visited every file: LoadAll returns nil.
WalkEnds ==
    /\ loader.phase = "walk"
    /\ loader.pos > Len(loader.files)
    /\ loader' = [loader EXCEPT !.phase = "returned"]
    /\ UNCHANGED <<Aside, last, r_items, ms_items>>

\* main after LoadAll: l.Fatal on an error, the routes and the server
\* otherwise.
Main ==
    /\ loader.phase = "returned"
    /\ loader.proc = "loading"
    /\ loader' = [loader EXCEPT
          !.proc = IF MainGoesOn(loader.err) THEN "serving" ELSE "exited"]
    /\ UNCHANGED <<Aside, last, r_items, ms_items>>

\* The server answers a request for the entry id.
Serve(id) ==
    /\ loader.proc = "serving"
    /\ LET r == GetOn(handle, Items, id)
       IN  last' = Call("Get", id, Nil, ErrNil, r.found, r.ret, <<>>)
    /\ UNCHANGED <<Aside, loader, r_items, ms_items>>

NextLoad ==
    \/ Visit
    \/ WalkEnds
    \/ Main
    \/ \E id \in {"git", "api", "docker"} : Serve(id)

SpecLoad == InitLoad /\ [][NextLoad]_vars

\* The process runs: the walk and main take their next step in the end.
FairLoad == SpecLoad /\ WF_vars(Visit \/ WalkEnds \/ Main)

\* PluginLoader.LoadPlugin(pluginPath) on the file at the path: the map of
\* the store afterwards, the error it returns and whether it called the hook.
PluginLoader_LoadPlugin(h, items, file) ==
    CASE file.fault = "ext" ->
            [items |-> items, err |-> ErrInvalidFile, hook |-> FALSE]
      [] file.fault = "open" -> [items |-> items, err |-> ErrOpen, hook |-> FALSE]
      [] file.fault = "lookup" ->
            [items |-> items, err |-> ErrLookup, hook |-> FALSE]
      [] file.fault = "signature" ->
            [items |-> items, err |-> ErrSignature, hook |-> FALSE]
      [] OTHER ->
            LET r == Hook(h, items, file)
            IN  [items |-> r.items,
                 err |-> IF r.err = ErrNil THEN ErrNil
                         ELSE ErrRegisterPlugin("PluginLoader", r.err),
                 hook |-> TRUE]

\* The program that holds a PluginLoader calls LoadPlugin on a file, at any
\* time while the process runs.
LoadPlugin(file) ==
    /\ loader.kind = "PluginLoader"
    /\ loader.proc # "exited"
    /\ LET r == PluginLoader_LoadPlugin(handle, Items, file)
       IN  /\ SetItems(r.items)
           /\ last' = Call("LoadPlugin", "", file, r.err, FALSE,
                           [kind |-> "hook", called |-> r.hook], <<>>)
    /\ UNCHANGED <<Aside, loader>>

\* The files a path passed to LoadPlugin can name.
PluginFiles == {m \in Modules : m.fault # "walk"}

NextPlugin ==
    \/ NextLoad
    \/ \E file \in PluginFiles : LoadPlugin(file)

\* How many files the directory of a PluginLoader holds at most where
\* LoadPlugin is called.
MaxPluginFiles == 2

InitPlugin ==
    /\ InitLoad
    /\ loader.kind = "PluginLoader"
    /\ Len(loader.files) <= MaxPluginFiles

\* A PluginLoader with calls of LoadPlugin, which main.go does not make.
SpecPlugin == InitPlugin /\ [][NextPlugin]_vars


(***************************************************************************)
(* C24                                                                     *)
(***************************************************************************)
\* The positions of the directory, and those of its files that are modules.
Positions == 1..Len(loader.files)

ModulePositions ==
    {p \in Positions : loader.files[p].fault \notin {"walk", "ext"}}

\* The modules without a fault: they pass the validation of their contract
\* and their hook registers a value.
Sound == {p \in Positions : loader.files[p].fault = "none"}

\* The handle h takes the value v: the adapter takes Items only.
Accepts(h, v) == h = "CentralRegistry" \/ IsItem(v)

\* The position of the file LoadAll returned the error of; past the end of
\* the directory if it returned nil.
Stop == IF loader.err = ErrNil THEN Len(loader.files) + 1 ELSE loader.pos - 1

\* C24 as stated: after LoadAll every module without a fault (whose value
\* the handle takes) has its entry in the Catalog, wherever the modules that
\* fail the validation of their contract stand in the directory.
C24_OthersRegistered ==
    loader.phase = "returned" =>
        \A p \in Sound :
            Accepts(handle, loader.files[p].value)
                => GetID(loader.files[p].value) \in DOMAIN Items

\* The ids a failing hook at the position LoadAll stopped at may have
\* registered before it returned its error.
Leftover ==
    IF Stop \in Positions /\ loader.files[Stop].fault = "late"
    THEN {GetID(loader.files[Stop].value)} ELSE {}

\* C24: after LoadAll the Catalog holds the entries of the modules that
\* stand before the first failing file, and only these and what the hook of
\* the failing file registered itself: every file before it has no fault,
\* and no file after it was opened or has registered.
C24_RegisteredBeforeFirstFailure ==
    loader.phase = "returned" =>
        /\ \A p \in Positions :
              p < Stop => loader.files[p].fault \in {"none", "ext"}
        /\ \A p \in Sound :
              p < Stop => GetID(loader.files[p].value) \in DOMAIN Items
        /\ DOMAIN Items
              \subseteq {GetID(loader.files[p].value) :
                            p \in {q \in Sound : q < Stop}} \cup Leftover
        /\ \A p \in Positions : p > Stop => p \notin loader.tried

\* A module that fails its contract stands between two modules without a
\* fault: the first is registered, the last is not.
C24_Witness ==
    /\ loader.phase = "returned"
    /\ \E p \in Sound : \E r \in Sound :
          /\ p < Stop /\ Stop < r
          /\ loader.files[Stop].fault \in {"lookup", "signature"}
          /\ GetID(loader.files[p].value) \in DOMAIN Items
          /\ GetID(loader.files[r].value) \notin DOMAIN Items


(***************************************************************************)
(* C25                                                                     *)
(***************************************************************************)
\* C25 as stated: LoadAll has attempted every module of the directory when
\* it returns; a module that cannot be opened or whose hook fails does not
\* end the scan.
C25_AllAttemptedBeforeReturn ==
    loader.phase = "returned" => loader.tried = ModulePositions

\* C25: LoadAll attempts the modules in the order of the walk and returns at
\* the first error: a step that leaves an error behind ends the scan, no
\* module is attempted after the return, each step attempts the next file
\* only, and every module has been attempted when LoadAll returns nil.
C25_ScanEndsAtFirstError ==
    [][/\ (loader'.err # ErrNil) => (loader'.phase = "returned")
       /\ (loader.phase = "returned") => (loader'.tried = loader.tried)
       /\ loader'.tried \subseteq loader.tried \cup {loader.pos}
       /\ (loader'.phase = "returned" /\ loader'.err = ErrNil)
             => (loader'.tried = ModulePositions)]_vars

\* LoadAll has returned the error of a module that cannot be opened or whose
\* hook fails, and a module after it was never attempted.
C25_Witness ==
    /\ loader.phase = "returned"
    /\ loader.err \in {ErrOpen, ErrRegisterPlugin(loader.kind, ErrHook)}
    /\ \E p \in ModulePositions : p > Stop /\ p \notin loader.tried

(***************************************************************************)
(* C26                                                                     *)
(***************************************************************************)
\* The modules that were loaded and have registered: their function
\* returned nil.
Loaded == {p \in loader.tried : p < Stop}

\* C26 as stated: LoadAll returns nil when one module at least was loaded
\* and has registered; it returns an error only if every module failed.
C26_ErrorOnlyIfAllFailed ==
    (loader.phase = "returned" /\ Loaded # {}) => loader.err = ErrNil

\* The positions of the directory that filepath.Walk cannot read.
Unreadable == {p \in Positions : loader.files[p].fault = "walk"}

\* C26: LoadAll returns nil exactly when the directory could be read and
\* every module of it was loaded and has registered, a loaded module being
\* one without a fault whose entry is in the Catalog; otherwise it returns
\* the error of the walk or of the first failing module, however many
\* modules were loaded before it.
C26_ErrorIfAnyFailed ==
    loader.phase = "returned" =>
        /\ (loader.err = ErrNil)
              <=> (Loaded = ModulePositions /\ Unreadable = {})
        /\ \A p \in Loaded :
              /\ loader.files[p].fault = "none"
              /\ GetID(loader.files[p].value) \in DOMAIN Items
        /\ (loader.err # ErrNil) =>
              /\ Stop \in ModulePositions \cup Unreadable
              /\ \/ loader.err = WalkFunc(loader.kind, handle, Items,
                                           loader.files[Stop]).err
                 \/ /\ loader.files[Stop].fault = "late"
                    /\ loader.err = ErrRegisterPlugin(loader.kind, ErrHook)

\* LoadAll has returned an error although a module was loaded and has
\* registered its entry.
C26_Witness ==
    /\ loader.phase = "returned"
    /\ loader.err # ErrNil
    /\ \E p \in Loaded : GetID(loader.files[p].value) \in DOMAIN Items

(***************************************************************************)
(* C27                                                                     *)
(***************************************************************************)
\* C27 as stated: a failing module does not abort the start: the process
\* is never ended by it and goes on to serve.
C27_StartNeverAborted == loader.proc # "exited"

\* C27: the process goes on to serve exactly when LoadAll returned nil; the
\* error of the first failing module ends the process before it serves, and
\* the start always comes to one of the two ends.
C27_ServesOnlyAfterFullLoad ==
    /\ [](loader.proc = "serving"
             => (loader.phase = "returned" /\ loader.err = ErrNil))
    /\ [](loader.proc = "exited"
             => (loader.phase = "returned" /\ loader.err # ErrNil))
    /\ <>(loader.proc \in {"serving", "exited"})

\* The process has ended on the error of a failing module, with the entry
\* of a sound module in the Catalog.
C27_Witness ==
    /\ loader.proc = "exited"
    /\ loader.files[Stop].fault # "none"
    /\ Items # EmptyMap


(***************************************************************************)
(* C28                                                                     *)
(***************************************************************************)
\* The latest call registered, through a registry, a value that is no Item
\* under an id the registry did not hold.
RegisteredForeign ==
    /\ handle \in Registries
    /\ last'.op = "Register"
    /\ ~IsItem(last'.arg)
    /\ last'.id \notin DOMAIN Catalog

\* The registry's map after the step.
CatalogAfter == IF handle = "CentralRegistry" THEN r_items' ELSE ms_items'

\* C28 as stated: Register takes every value that has GetID and GetType,
\* whatever its type: through CentralRegistry and through the adapter the
\* registration of a BuiltinAPI under a new id returns nil, and Get and List
\* return the value afterwards.
C28_AnyCapabilityRegisters ==
    [][RegisteredForeign =>
          /\ last'.err = ErrNil
          /\ GetOn(handle, CatalogAfter, last'.id)
                = [ret |-> last'.arg, found |-> TRUE]
          /\ last'.arg \in ListOn(handle, CatalogAfter)]_vars

\* C28: CentralRegistry takes every value that has GetID and GetType: the
\* registration of a BuiltinAPI under a new id returns nil, and Get and List
\* return the value afterwards.  The adapter takes Items only: through it
\* the registration of a BuiltinAPI returns an error, and neither Get nor
\* List returns the value afterwards.
C28_RegistryTakesAnyAdapterItemsOnly ==
    [][RegisteredForeign =>
          IF handle = "CentralRegistry"
          THEN /\ last'.err = ErrNil
               /\ GetOn(handle, CatalogAfter, last'.id)
                     = [ret |-> last'.arg, found |-> TRUE]
               /\ last'.arg \in ListOn(handle, CatalogAfter)
          ELSE /\ last'.err # ErrNil
               /\ ~GetOn(handle, CatalogAfter, last'.id).found
               /\ last'.arg \notin ListOn(handle, CatalogAfter)]_vars

\* A BuiltinAPI was registered through CentralRegistry and is in its map.
C28_Witness ==
    /\ handle = "CentralRegistry"
    /\ last.op = "Register" /\ last.err = ErrNil
    /\ ~IsItem(last.arg)
    /\ last.id \in DOMAIN r_items
    /\ r_items[last.id] = last.arg

(***************************************************************************)
(* C29                                                                     *)
(***************************************************************************)
\* C29: the adapter's Register of a value whose type is not Item returns
\* the error "invalid item type" and leaves the map of the storage as it
\* was, whether the storage holds the id or not.
C29_AdapterRejectsForeignType ==
    [][(/\ handle = "MemoryStorageAdapter"
        /\ last'.op = "Register"
        /\ ~IsItem(last'.arg))
       => /\ last'.err = ErrInvalidType
          /\ ms_items' = ms_items]_vars

\* The adapter has refused a BuiltinAPI under the id of a stored entry.
C29_Witness ==
    /\ handle = "MemoryStorageAdapter"
    /\ last.op = "Register" /\ last.err = ErrInvalidType
    /\ ~IsItem(last.arg)
    /\ last.id \in DOMAIN ms_items


(***************************************************************************)
(* The two registries side by side: every call is made on a CentralRegistry *)
(* (r_items) and on a MemoryStorageAdapter over an own MemoryStorage         *)
(* (ms_items), and last holds the outcome of either.                         *)
(***************************************************************************)
\* The outcomes of a call on the two registries.
Both(cr, msa) == [cr |-> cr, msa |-> msa]

InitPair ==
    /\ handle = "Both"
    /\ r_items = EmptyMap
    /\ ms_items = EmptyMap
    /\ s_items = EmptyMap
    /\ start = EmptyMap
    /\ now = 1
    /\ last = Both(Call("none", "", Nil, ErrNil, FALSE, Nil, <<>>),
                   Call("none", "", Nil, ErrNil, FALSE, Nil, <<>>))
    /\ regOK = [i \in AllIds |-> 0]
    /\ touched = [i \in AllIds |-> FALSE]
    /\ pre = NoPre
    /\ mu = "free"
    /\ readers = {}
    /\ imu = <<>>
    /\ loader = NoLoader
    /\ th = [t \in Threads |-> Idle]

\* What the calls on the two registries leave alone.
Beside ==
    <<handle, s_items, start, now, regOK, touched, pre, mu, readers, imu,
      loader, th>>

PairRegister(item) ==
    /\ LET c == CentralRegistry_Register(r_items, item)
           a == Adapter_Register(ms_items, item)
       IN  /\ r_items' = c.items
           /\ ms_items' = a.items
           /\ last' = Both(
                 Call("Register", GetID(item), item, c.err, FALSE, Nil, <<>>),
                 Call("Register", GetID(item), item, a.err, FALSE, Nil, <<>>))
    /\ UNCHANGED Beside

PairGet(id) ==
    /\ LET c == CentralRegistry_Get(r_items, id)
           a == Adapter_Get(ms_items, id)
       IN  last' = Both(Call("Get", id, Nil, ErrNil, c.found, c.ret, <<>>),
                        Call("Get", id, Nil, ErrNil, a.found, a.ret, <<>>))
    /\ UNCHANGED <<Beside, r_items, ms_items>>

PairUnregister(id) ==
    /\ LET c == CentralRegistry_Unregister(r_items, id)
           a == Adapter_Unregister(ms_items, id, now)
       IN  /\ r_items' = c.items
           /\ ms_items' = a.items
           /\ last' = Both(
                 Call("Unregister", id, Nil, c.err, FALSE, Nil, <<>>),
                 Call("Unregister", id, Nil, a.err, FALSE, Nil, <<>>))
    /\ UNCHANGED Beside

PairList ==
    /\ \E cs \in Orderings(CentralRegistry_List(r_items)) :
       \E as \in Orderings(Adapter_List(ms_items)) :
          last' = Both(Call("List", "", Nil, ErrNil, FALSE, Nil, cs),
                       Call("List", "", Nil, ErrNil, FALSE, Nil, as))
    /\ UNCHANGED <<Beside, r_items, ms_items>>

\* ListByType on both stores.  The adapter's call takes its steps, between
\* which the other calls can fall; the call of CentralRegistry, which is
\* one step under its read lock, is made when the adapter's has returned.
PairListByType_List(itemType) ==
    /\ th[Lister].pc = "idle"
    /\ \E items \in Orderings({GetID(e) : e \in Adapter_List(ms_items)}) :
           th' = [th EXCEPT ![Lister] = Listing(itemType, items, <<>>)]
    /\ last' = Both(Call("none", "", Nil, ErrNil, FALSE, Nil, <<>>),
                    Call("a.List", itemType, Nil, ErrNil, FALSE, Nil, <<>>))
    /\ UNCHANGED <<handle, s_items, start, now, regOK, touched, pre, mu,
                   readers, imu, loader, r_items, ms_items>>

PairListByType_GetType ==
    /\ th[Lister].pc = "GetType"
    /\ th[Lister].before # <<>>
    /\ LET c == th[Lister]
           id == Head(c.before)
       IN  th' = [th EXCEPT ![Lister] =
                     Listing(c.arg, Tail(c.before),
                             IF Adapter_ListByType_Keeps(ms_items[id], c.arg)
                             THEN Append(c.ret, id) ELSE c.ret)]
    /\ UNCHANGED <<handle, s_items, start, now, regOK, touched, pre, mu,
                   readers, imu, loader, r_items, ms_items, last>>

PairListByType_Return ==
    /\ th[Lister].pc = "GetType"
    /\ th[Lister].before = <<>>
    /\ LET c == th[Lister]
       IN  \E cs \in Orderings(CentralRegistry_ListByType(r_items, c.arg)) :
              last' = Both(
                 Call("ListByType", c.arg, Nil, ErrNil, FALSE, Nil, cs),
                 Call("ListByType", c.arg, Nil, ErrNil, FALSE, Nil,
                      [i \in 1..Len(c.ret) |-> ms_items[c.ret[i]]]))
    /\ th' = [th EXCEPT ![Lister] = Idle]
    /\ UNCHANGED <<handle, s_items, start, now, regOK, touched, pre, mu,
                   readers, imu, loader, r_items, ms_items>>

NextPair ==
    \/ \E item \in InputItems : PairRegister(item)
    \/ \E id \in Ids : PairGet(id)
    \/ \E id \in Ids : PairUnregister(id)
    \/ PairList
    \/ \E t \in Types : PairListByType_List(t)
    \/ PairListByType_GetType
    \/ PairListByType_Return

SpecPair == InitPair /\ [][NextPair]_vars


(***************************************************************************)
(* C30                                                                     *)
(***************************************************************************)
\* What a caller sees of an entry: all but its version and its times.
View(e) == [id |-> e.id, type |-> e.type, name |-> e.name, meta |-> e.meta]

Views(S) == {View(e) : e \in S}

\* The elements of a slice.
Elements(s) == {s[i] : i \in DOMAIN s}

\* The ids the adapter's storage holds a tombstone of: the ids that were
\* unregistered.
Tombs == {id \in DOMAIN ms_items : ms_items[id].deleted}

\* The two outcomes of the latest call agree: both nil or both an error,
\* both found or both not, the same entries returned.
SameOutcome(l) ==
    /\ (l.cr.err = ErrNil) <=> (l.msa.err = ErrNil)
    /\ l.cr.found = l.msa.found
    /\ l.cr.found => View(l.cr.ret) = View(l.msa.ret)
    /\ Views(Elements(l.cr.list)) = Views(Elements(l.msa.list))

\* The step is a call on both registries and no step of a ListByType.
PairCalled ==
    \/ th[Lister].pc = "idle" /\ th'[Lister].pc = "idle"
    \/ /\ th[Lister].pc = "GetType" /\ th'[Lister].pc = "GetType"
       /\ th'[Lister].before = th[Lister].before

\* C30 as stated: after every sequence of Register, Get, Unregister, List
\* and ListByType on Items the adapter and CentralRegistry have returned
\* the same outcomes and show the same set of entries.
C30_AdapterEquivalent ==
    /\ SameOutcome(last)
    /\ Views(CentralRegistry_List(r_items)) = Views(Adapter_List(ms_items))

\* C30: the adapter and CentralRegistry agree on every id that was never
\* unregistered: Register, Get and Unregister of such an id have the same
\* outcome and the entries of such ids are the same in both.  On an id that
\* was unregistered they differ: the adapter keeps a tombstone, so that it
\* refuses a later Register with "item already exists", which
\* CentralRegistry takes unless it holds the id again, and it returns nil
\* for a later Unregister, which CentralRegistry refuses unless it holds
\* the id again.
\* A ListByType of the adapter between whose a.List() and return no other
\* call fell returns what CentralRegistry returns of the ids that were never
\* unregistered.
C30_AdapterEquivalentUntilUnregister ==
    /\ [](/\ \A id \in Ids \ Tombs :
                LET c == CentralRegistry_Get(r_items, id)
                    a == Adapter_Get(ms_items, id)
                IN  /\ c.found = a.found
                    /\ c.found => View(c.ret) = View(a.ret)
          /\ {v \in Views(CentralRegistry_List(r_items)) : v.id \notin Tombs}
                = Views(Adapter_List(ms_items))
          /\ \A id \in Tombs : ~Adapter_Get(ms_items, id).found)
    /\ [][/\ (PairCalled /\ last'.cr.op \in {"Register", "Unregister"}
                 /\ last'.cr.id \notin Tombs)
             => SameOutcome(last')
          /\ (PairCalled /\ last'.cr.op = "Register" /\ last'.cr.id \in Tombs)
             => /\ last'.msa.err = ErrExists
                /\ (last'.cr.err = ErrNil) <=> (last'.cr.id \notin DOMAIN r_items)
          /\ (PairCalled /\ last'.cr.op = "Unregister"
                 /\ last'.cr.id \in Tombs)
             => /\ last'.msa.err = ErrNil
                /\ (last'.cr.err = ErrNil) <=> (last'.cr.id \in DOMAIN r_items)
          /\ (last'.cr.op = "ListByType" /\ last.msa.op = "a.List")
             => {v \in Views(Elements(last'.cr.list)) : v.id \notin Tombs}
                   = Views(Elements(last'.msa.list))
         ]_vars

\* An Item was registered again after its Unregister: CentralRegistry has
\* taken it and shows it, the adapter has refused it and shows nothing.
C30_Witness ==
    /\ last.cr.op = "Register"
    /\ last.cr.err = ErrNil
    /\ last.msa.err = ErrExists
    /\ last.cr.id \in Tombs
    /\ CentralRegistry_Get(r_items, last.cr.id).found
    /\ ~Adapter_Get(ms_items, last.cr.id).found


(***************************************************************************)
(* C31                                                                     *)
(***************************************************************************)
\* The latest call registered again an id whose entry was soft-deleted:
\* Register through the adapter (CreateItem), or UpsertItem of the ItemStore.
\* CentralRegistry holds no soft-deleted entry: its Unregister removes.
Reregistered ==
    \/ /\ handle = "MemoryStorageAdapter"
       /\ last'.op = "Register" /\ IsItem(last'.arg)
       /\ last'.id \in DOMAIN ms_items
       /\ Tombstone(ms_items[last'.id])
    \/ /\ handle = "ItemStore"
       /\ last'.op = "UpsertItem"
       /\ last'.arg.id \in DOMAIN s_items
       /\ Tombstone(s_items[last'.arg.id])

\* The map the latest call of the adapter or of the ItemStore worked on,
\* before and after the call.
SlotsBefore == IF handle = "ItemStore" THEN s_items ELSE ms_items

SlotsAfter == IF handle = "ItemStore" THEN s_items' ELSE ms_items'

\* C31 as stated: the registration of a soft-deleted id is an update of its
\* slot: it returns nil, the store holds the same ids as before, and the
\* version of the slot goes on from its value, it does not start again.
C31_ReregisterUpdatesSlot ==
    [][Reregistered =>
          /\ last'.err = ErrNil
          /\ DOMAIN SlotsAfter = DOMAIN SlotsBefore
          /\ SlotsAfter[last'.arg.id].version
                >= SlotsBefore[last'.arg.id].version]_vars

\* C31: no registration of a soft-deleted id brings a second entry of the
\* id into being or lowers the version of its slot.  CreateItem rejects it
\* as a duplicate with "item already exists" and leaves the tombstone as
\* it was.  UpsertItem does not reject it: with a version above the stored
\* one it puts the value passed in into the slot, with the version of that
\* value and the createdAt of the tombstone, and otherwise it changes
\* nothing and returns the tombstone.
C31_ReregisterRejectedOrReplaced ==
    [][Reregistered =>
          LET id == last'.arg.id
              old == SlotsBefore[id]
          IN  /\ DOMAIN SlotsAfter = DOMAIN SlotsBefore
              /\ SlotsAfter[id].version >= old.version
              /\ IF handle = "MemoryStorageAdapter"
                 THEN /\ last'.err = ErrExists
                      /\ ms_items' = ms_items
                 ELSE /\ last'.err = ErrNil
                      /\ IF last'.arg.version > old.version
                         THEN /\ Payload(s_items'[id]) = Payload(last'.arg)
                              /\ s_items'[id].createdAt = old.createdAt
                              /\ last'.ret = s_items'[id]
                         ELSE /\ s_items' = s_items
                              /\ last'.ret = old]_vars

\* The adapter has rejected the registration of a soft-deleted id.
C31_Witness ==
    /\ handle = "MemoryStorageAdapter"
    /\ last.op = "Register" /\ last.err = ErrExists
    /\ last.id \in DOMAIN ms_items
    /\ Tombstone(ms_items[last.id])


(***************************************************************************)
(* C32                                                                     *)
(***************************************************************************)
\* The latest call was a strict create under the id of a live entry:
\* Register of CentralRegistry, or CreateItem through the adapter's Register.
CreatedOverLive ==
    /\ handle \in Registries
    /\ last'.op = "Register"
    /\ handle = "MemoryStorageAdapter" => IsItem(last'.arg)
    /\ last'.id \in DOMAIN Catalog
    /\ ~Tombstone(Catalog[last'.id])

\* C32: MemoryStorage.CreateItem and CentralRegistry.Register, called with
\* the id of a live entry, return the already-exists error ("item already
\* exists", "item already registered: <id>") and leave the map as it was,
\* the stored entry and its version included: a live entry is never
\* overwritten.
C32_CreateOverLiveRejected ==
    [][CreatedOverLive =>
          /\ last'.err = IF handle = "CentralRegistry"
                         THEN ErrAlreadyRegistered(last'.id) ELSE ErrExists
          /\ CatalogAfter = Catalog
          /\ CatalogAfter[last'.id] = Catalog[last'.id]]_vars

\* A strict create of another value under the id of a live entry was
\* rejected, and the entry is still the one stored before.
C32_Witness ==
    /\ handle \in Registries
    /\ last.op = "Register"
    /\ last.err \in {ErrExists, ErrAlreadyRegistered(last.id)}
    /\ last.id \in DOMAIN Catalog
    /\ ~Tombstone(Catalog[last.id])
    /\ Catalog[last.id].name # last.arg.name


(***************************************************************************)
(* The clock: time.Now() goes on between the calls.  The calls are those   *)
(* of Spec that write to a store.                                          *)
(***************************************************************************)
\* The last instant of the clock.
MaxTime == 3

\* Time passes.
Tick ==
    /\ now < MaxTime
    /\ now' = now + 1
    /\ UNCHANGED <<handle, r_items, ms_items, s_items, last, regOK, touched,
                   pre, mu, th, start, readers, imu, loader>>

\* The Items the calls pass in while the clock runs: those of one id.
ClockItems == {item \in InputItems : item.id = "git"}

InitClock == Init

NextClock ==
    \/ \E item \in ClockItems : Register(item)
    \/ Unregister("git")
    \/ \E item \in ClockItems : Store(item)
    \/ \E item \in ClockItems : UpdateItem(item)
    \/ Restore("git")
    \/ \E item \in InputItems : \E u \in Uuids : UpsertItem(item, u)
    \/ DeleteItem("git")
    \/ RestoreItem("git")
    \/ Tick

SpecClock == InitClock /\ [][NextClock]_vars


(***************************************************************************)
(* C33.  CreatedAt under a running clock.                                  *)
(***************************************************************************)
\* The map of the store in use after the step.
Held == CASE handle = "CentralRegistry" -> r_items'
          [] handle = "MemoryStorageAdapter" -> ms_items'
          [] OTHER -> s_items'

\* The ids stored before and after the step.
Staying == DOMAIN Catalog \cap DOMAIN Held

\* The ids the step stores that were not stored before it.
Created == DOMAIN Held \ DOMAIN Catalog

\* C33: no call on an id that is stored changes the createdAt of its entry
\* (Store, UpdateItem, UpsertItem, soft delete and Restore keep it, a replacing
\* UpsertItem copies it from the replaced entry), and ItemStore sets createdAt
\* to the time of the call that creates the entry.  MemoryStorage.CreateItem
\* and CentralRegistry.Register store the createdAt of the value passed in.
C33_CreatedAtImmutable ==
    [][/\ \A id \in Staying : Held[id].createdAt = Catalog[id].createdAt
       /\ handle = "ItemStore" =>
              \A id \in Created : Held[id].createdAt = now
       /\ handle # "ItemStore" =>
              \A id \in Created : Held[id].createdAt = last'.arg.createdAt]_vars

\* An ItemStore entry created at time 1 was replaced by an UpsertItem at a
\* later time: updatedAt moved, createdAt did not.
C33_Witness ==
    /\ handle = "ItemStore"
    /\ last.op = "UpsertItem" /\ last.err = ErrNil
    /\ "git" \in DOMAIN s_items
    /\ s_items["git"].version = 2
    /\ s_items["git"].createdAt = 1
    /\ s_items["git"].updatedAt = now
    /\ now > 1


(***************************************************************************)
(* C34.  UpdatedAt under a running clock.                                  *)
(***************************************************************************)
\* The ids whose entry the step creates or changes.
Mutated ==
    {id \in DOMAIN Held : id \notin DOMAIN Catalog \/ Held[id] # Catalog[id]}

\* C34: every call that creates or changes an entry (create, update, soft
\* delete, restore) leaves the entry with updatedAt equal to the time of the
\* call.
C34_UpdatedAtIsLatestMutation ==
    [][\A id \in Mutated : Held[id].updatedAt = now]_vars


(***************************************************************************)
(* C35.  The hook is called after the validation only.                     *)
(***************************************************************************)
\* The walk is at a module that fails to open, lacks Register, or whose
\* Register has another signature.
AtUnhooked ==
    /\ loader.phase = "walk"
    /\ loader.pos <= Len(loader.files)
    /\ loader.files[loader.pos].fault \in Unhooked
    /\ loader'.pos # loader.pos

\* The step is a call of LoadPlugin.
LoadedPlugin == last'.op = "LoadPlugin" /\ loader' = loader /\ last' # last

\* C35: LoadAll and LoadPlugin call the hook of a module only after
\* plugin.Open, Lookup and the signature assertion all succeeded, and call it
\* for every attempted module that passes them; the visit of a module
\* failing one of the three calls no hook, returns an error and leaves the
\* Catalog as it was.
C35_HookOnlyAfterValidation ==
    /\ [](\A p \in loader.tried :
             p \in loader.hooked <=> loader.files[p].fault \notin Unhooked)
    /\ [](loader.hooked \subseteq loader.tried)
    /\ [][AtUnhooked => /\ loader'.hooked = loader.hooked
                        /\ loader'.err # ErrNil
                        /\ CatalogAfter = Catalog]_vars
    /\ [][LoadedPlugin =>
             /\ last'.ret.called
                   <=> last'.arg.fault \notin Unhooked \cup {"ext"}
             /\ ~last'.ret.called
                   => (last'.err # ErrNil /\ CatalogAfter = Catalog)]_vars

\* LoadAll has returned the error of a module whose Register has another
\* signature: its hook was not called and its entry "git" is not in the
\* Catalog, while the hook of a module before it was called and registered.
C35_Witness ==
    /\ loader.phase = "returned"
    /\ Stop \in loader.tried
    /\ loader.files[Stop].fault = "signature"
    /\ Stop \notin loader.hooked
    /\ GetID(loader.files[Stop].value) \notin DOMAIN Items
    /\ loader.hooked # {}
    /\ Items # EmptyMap


(***************************************************************************)
(* C39.  The pairs the list handler passes to List(limit, offset).         *)
(***************************************************************************)
\* Handler.ListItems calls the paginated List with the limit and offset of
\* the query, as strconv.Atoi parsed them, when one of the two is positive.
Handler_Paginates(limit, offset) == limit > 0 \/ offset > 0

\* C39: List(limit, offset) returns a slice and does not fail for every pair
\* of limit and offset the handler passes to it, a negative limit or a
\* negative offset included.
C39_ListNeverFails ==
    (/\ last.op = "ListPaginated"
     /\ Handler_Paginates(last.arg.limit, last.arg.offset))
    => last.err = ErrNil


(***************************************************************************)
(* C38.  UpsertItem with a version that is not newer.                      *)
(***************************************************************************)
\* The step is an UpsertItem of a value whose id is stored with a version
\* that is not lower than the value's.
UpsertedStale ==
    /\ handle = "ItemStore"
    /\ last'.op = "UpsertItem"
    /\ last'.arg.id # ""
    /\ last'.arg.id \in DOMAIN s_items
    /\ last'.arg.version <= s_items[last'.arg.id].version

\* C38: UpsertItem of a stored non-empty id with a version less than or equal
\* to the stored one leaves the store as it was and returns the stored entry
\* and nil; and no UpsertItem lowers the version stored for an id.
C38_StaleUpsertChangesNothing ==
    /\ [][UpsertedStale => /\ s_items' = s_items
                           /\ last'.ret = s_items[last'.arg.id]
                           /\ last'.err = ErrNil]_vars
    /\ [][(handle = "ItemStore" /\ last'.op = "UpsertItem")
            => \A id \in DOMAIN s_items :
                  /\ id \in DOMAIN s_items'
                  /\ s_items'[id].version >= s_items[id].version]_vars

\* An UpsertItem of version 0 met the entry of version 2: it was returned
\* the stored entry, which is not the value it passed.
C38_Witness ==
    /\ handle = "ItemStore"
    /\ last.op = "UpsertItem" /\ last.err = ErrNil
    /\ last.arg.id = "git" /\ last.arg.version = 0
    /\ "git" \in DOMAIN s_items
    /\ s_items["git"].version = 2
    /\ last.ret = s_items["git"]
    /\ last.ret.name # last.arg.name


(***************************************************************************)
(* C37.  Writes on the id of a soft-deleted entry.                         *)
(***************************************************************************)
\* The step is a Register, Store, UpdateItem or UpsertItem of a value whose
\* id holds a soft-deleted entry.
WroteOnTombstone ==
    /\ last'.op \in {"Register", "Store", "UpdateItem", "UpsertItem"}
    /\ now' = now
    /\ last'.arg.id \in DOMAIN Catalog
    /\ Tombstone(Catalog[last'.arg.id])

\* Get of the written id finds an entry after the step.
FoundAfter == GetOn(handle, Held, last'.arg.id).found

\* C37 as stated: no Register, CreateItem, Store, UpsertItem or UpdateItem on
\* a soft-deleted id makes Get of the id find the entry.
C37_OnlyRestoreResurrects ==
    [][WroteOnTombstone => ~FoundAfter]_vars

\* C37: Register, Store and UpdateItem on a soft-deleted id leave the entry
\* soft-deleted, and so does UpsertItem with a version that is not greater
\* than the stored one; UpsertItem with a greater version replaces the entry
\* by the value passed, which is not deleted: Get finds it without a Restore.
C37_HiddenUnlessNewerUpsert ==
    [][WroteOnTombstone =>
          IF /\ last'.op = "UpsertItem"
             /\ last'.arg.version > Catalog[last'.arg.id].version
          THEN /\ FoundAfter
               /\ last'.err = ErrNil
               /\ Payload(Held[last'.arg.id]) = Payload(last'.arg)
          ELSE /\ ~FoundAfter
               /\ Tombstone(Held[last'.arg.id])]_vars

\* A Store has updated the soft-deleted entry of "git", which is still
\* soft-deleted: Get does not find it.
C37_Witness ==
    /\ handle = "MemoryStorageAdapter"
    /\ last.op = "Store" /\ last.err = ErrNil
    /\ "git" \in DOMAIN ms_items
    /\ Tombstone(ms_items["git"])
    /\ ms_items["git"].name = last.arg.name
    /\ ms_items["git"].version >= 2
    /\ ~GetOn(handle, ms_items, "git").found


(***************************************************************************)
(* C40.  What a failing hook registered stays registered.                  *)
(***************************************************************************)
\* LoadAll returned the error of a hook that had registered its value.
FailedLate ==
    /\ loader.phase = "returned"
    /\ Stop \in Positions
    /\ loader.files[Stop].fault = "late"
    /\ loader.err = ErrRegisterPlugin(loader.kind, ErrHook)

\* C40: when a hook registers its value and then returns an error, LoadAll
\* returns that error and the value is in the Catalog afterwards, found by
\* Get under its id; no step of the loader or of main takes an entry out of
\* the Catalog or changes one.
C40_NoRollback ==
    /\ [](FailedLate =>
             LET v == loader.files[Stop].value
                 g == GetOn(handle, Items, GetID(v))
             IN  /\ GetID(v) \in DOMAIN Items
                 /\ g.found
                 /\ g.ret.kind = v.kind /\ g.ret.name = v.name)
    /\ [][\A id \in DOMAIN Catalog :
             id \in DOMAIN CatalogAfter /\ CatalogAfter[id] = Catalog[id]]_vars

\* The process has ended on the error of a hook that had registered "git"
\* after a sound module registered "api": both entries are in the Catalog.
C40_Witness ==
    /\ FailedLate
    /\ loader.proc = "exited"
    /\ GetID(loader.files[Stop].value) = "git"
    /\ DOMAIN Items = {"git", "api"}
    /\ \A p \in Positions : p < Stop => GetID(loader.files[p].value) = "api"


(***************************************************************************)
(* The caller's pointers.  Register and CreateItem store the pointer they  *)
(* are passed (registry.go:43, memory.go:169), and Get and List return the *)
(* stored pointers (registry.go:50, 69; memory.go:204, 64): the value a    *)
(* caller passed or received is the stored entry for as long as it stays.  *)
(***************************************************************************)
\* What the caller does with an *Item it holds.
CallerOps == {"Item.SoftDelete", "Item.Restore", "Item.Update", "Item.Name ="}

\* The ids whose stored entry a caller holds a pointer to.  Every stored
\* *Item is the pointer a caller passed to Register or CreateItem, and no
\* call of the store takes it back from that caller: not a refused Register
\* of the same id, not a Get that finds nothing, not Restore, and not the
\* adapter's Unregister, which leaves the entry in the map.  Only the delete
\* of CentralRegistry.Unregister parts the pointer from the store.
Borrowed == {id \in DOMAIN Items : IsItem(Items[id])}

\* The caller has made the entry of id, through its pointer, the value e.
Through(op, id, e) ==
    /\ SetItems(Put(Items, id, e))
    /\ last' = Call(op, id, Nil, ErrNil, FALSE, Nil, <<>>)
    /\ UNCHANGED <<loader, readers, imu, mu, th, start, handle, s_items, now,
                   regOK, touched, pre>>

\* item.SoftDelete() on a pointer the caller holds.
CallerSoftDelete(id) ==
    /\ id \in Borrowed
    /\ Through("Item.SoftDelete", id, Item_SoftDelete(Items[id], now))

\* item.Restore() on a pointer the caller holds.
CallerRestore(id) ==
    /\ id \in Borrowed
    /\ Through("Item.Restore", id, Item_Restore(Items[id], now))

\* item.Update(name, type, metadata) on a pointer the caller holds.
CallerUpdate(id, item) ==
    /\ id \in Borrowed
    /\ Items[id].version < MaxVersion
    /\ Through("Item.Update", id,
               Item_Update(Items[id], item.name, item.type, item.meta, now))

\* item.Name = name on a pointer the caller holds.
CallerWrite(id, name) ==
    /\ id \in Borrowed
    /\ Through("Item.Name =", id, [Items[id] EXCEPT !.name = name])

InitAlias == Init /\ handle \in {"CentralRegistry", "MemoryStorageAdapter"}

NextAlias ==
    \/ \E item \in ClockItems : Register(item)
    \/ Get("git")
    \/ List
    \/ Unregister("git")
    \/ Restore("git")
    \/ CallerSoftDelete("git")
    \/ CallerRestore("git")
    \/ \E item \in ClockItems : CallerUpdate("git", item)
    \/ \E item \in ClockItems : CallerWrite("git", item.name)

SpecAlias == InitAlias /\ [][NextAlias]_vars

(***************************************************************************)
(* C36.  The Catalog changes through its operations only.                  *)
(***************************************************************************)
\* The step is an action of the caller on a value it passed or received.
CallerActs == last'.op \in CallerOps /\ last' # last

\* C36: no action of the caller on the value it passed to Register or
\* received from Get or List changes what the Catalog stores or what Get and
\* List return afterwards.
C36_OnlyCatalogOperationsChange ==
    [][CallerActs =>
          /\ CatalogAfter = Catalog
          /\ GetOn(handle, CatalogAfter, last'.id)
                = GetOn(handle, Catalog, last'.id)
          /\ ListOn(handle, CatalogAfter) = ListOn(handle, Catalog)]_vars

(***************************************************************************)
(* Queries by type: the calls of the Registry interface, Restore, Store    *)
(* and the Update of a caller on a pointer it holds, while a goroutine is  *)
(* in ListByType.                                                          *)
(***************************************************************************)
\* The Item whose fields the holder of a pointer passes to Update.
QueryItem == MkItem("git", "DB", "Git API v2", Meta2, 2)

InitQuery == Init /\ handle \in {"CentralRegistry", "MemoryStorageAdapter"}

NextQuery ==
    \/ \E item \in InputRegisterables : Register(item)
    \/ \E id \in Ids : Get(id)
    \/ \E id \in Ids : Unregister(id)
    \/ List
    \/ \E id \in Ids : Restore(id)
    \/ CallerUpdate(QueryItem.id, QueryItem)
    \/ Store(QueryItem)
    \/ UpdateItem(QueryItem)
    \/ \E t \in Types : ListByType(t)
    \/ \E t \in Types : ListByType_List(t)
    \/ ListByType_GetType
    \/ ListByType_Return

SpecQuery == InitQuery /\ [][NextQuery]_vars

====
